---- MODULE Spec2Model ----
(***************************************************************************)
(* KorzeTerm terminal core: TerminalWidget of src/build.h (the grid-based  *)
(* widget, lines 2018-3010).  The widget's members are the variables; each *)
(* event handler (readFromPty, resizeEvent, the blink timer lambda) is one *)
(* action.  The byte decoder, the escape parser and the screen buffer      *)
(* operations are operators over a record holding the members, so that a   *)
(* handler's effect on a whole chunk of bytes is one step.                  *)
(***************************************************************************)
EXTENDS Integers, Sequences, FiniteSets, TLC

(***************************************************************************)
(* Bounds of the model.  The widget starts 24 x 80; the model starts with  *)
(* a grid of InitRows x InitCols and lets resize events pick any size up   *)
(* to that.  MaxInput bounds the bytes the child writes during a run,       *)
(* MaxSequences the input where a specification feeds whole characters and *)
(* escape sequences, MaxChunk the bytes one read() returns where chunking  *)
(* matters, MaxResizes the resize events.  Where a specification feeds a    *)
(* whole scenario of several characters on one row, the grid starts         *)
(* InitRows x WideCols and MaxScenarios bounds the scenarios fed.           *)
(* Where the pseudo-terminal itself is modelled, read() returns at most     *)
(* ReadCapacity bytes (sizeof(buffer) - 1, 4095 in the code, scaled down),  *)
(* the child writes at most MaxOutput bytes and the user presses at most    *)
(* MaxKeys keys.  Where tab stops matter the grid starts InitRows x TabCols, *)
(* wide enough to hold the tab stop at column 8.                            *)
(***************************************************************************)
InitRows == 2
InitCols == 3
MaxInput == 4
MaxSequences == 3
MaxChunk == 2
MaxResizes == 2
MaxScenarios == 2
WideCols == 4
ReadCapacity == 2
MaxOutput == 3
MaxKeys == 2
TabCols == 10

MaxRows == InitRows
MaxCols == InitCols

(***************************************************************************)
(* Byte values the code tests for.                                          *)
(***************************************************************************)
BEL == 7
BS == 8
TAB == 9
LF == 10
CR == 13
ESC == 27
SPACE == 32
PERCENT == 37
DIGIT0 == 48
DIGIT9 == 57
SEMI == 59
EQUALS == 61
GT == 62
QUESTION == 63
LBRACKET == 91
BACKSLASH == 92
RBRACKET == 93

Min(a, b) == IF a < b THEN a ELSE b
Max(a, b) == IF a > b THEN a ELSE b
\* qBound(lo, v, hi) == qMax(lo, qMin(hi, v))
qBound(lo, v, hi) == Max(lo, Min(hi, v))

(***************************************************************************)
(* Colours are RGB triples; an out-of-range QColor(r,g,b) is invalid.       *)
(***************************************************************************)
DefaultFg == <<235, 219, 178>>
DefaultBg == <<40, 40, 40>>
InvalidColor == <<-1, -1, -1>>

QColor(r, g, b) ==
    IF r \in 0..255 /\ g \in 0..255 /\ b \in 0..255 THEN <<r, g, b>> ELSE InvalidColor

BasicPalette ==
    <<  <<40, 40, 40>>,    <<204, 36, 29>>,   <<152, 151, 26>>,  <<215, 153, 33>>,
        <<69, 133, 136>>,  <<177, 98, 134>>,  <<104, 157, 106>>, <<168, 153, 132>>,
        <<146, 131, 116>>, <<251, 73, 52>>,   <<184, 187, 38>>,  <<250, 189, 47>>,
        <<131, 165, 152>>, <<211, 134, 155>>, <<142, 192, 124>>, <<235, 219, 178>> >>

\* the component r * 40 + 55 without the special case of 0
CubeValue_NoZero(n) == n * 40 + 55

\* r == 0 ? 0 : (r * 40 + 55)
CubeValue(n) == IF n = 0 THEN 0 ELSE n * 40 + 55

\* the three nested loops of the colour cube, each as the entries it stores
\* in order: every turn of the innermost loop stores at index++
RECURSIVE CubeLoopB(_, _, _)
CubeLoopB(r, g, b) ==
    IF b < 6
    THEN <<QColor(CubeValue(r), CubeValue(g), CubeValue(b))>> \o CubeLoopB(r, g, b + 1)
    ELSE <<>>

RECURSIVE CubeLoopG(_, _)
CubeLoopG(r, g) == IF g < 6 THEN CubeLoopB(r, g, 0) \o CubeLoopG(r, g + 1) ELSE <<>>

RECURSIVE CubeLoopR(_)
CubeLoopR(r) == IF r < 6 THEN CubeLoopG(r, 0) \o CubeLoopR(r + 1) ELSE <<>>

\* the grayscale loop, as the entries it stores at 232 + i
RECURSIVE GrayLoop(_)
GrayLoop(i) ==
    IF i < 24
    THEN LET value == i * 10 + 8 IN <<QColor(value, value, value)>> \o GrayLoop(i + 1)
    ELSE <<>>

\* m_colorPalette after initializeColorPalette: entry index is at index + 1
initializeColorPalette ==
    LET cube == CubeLoopR(0)
        gray == GrayLoop(0)
    IN [i \in 1..256 |->
            IF i <= 16 THEN BasicPalette[i]
            ELSE IF i - 16 <= Len(cube) THEN cube[i - 16]
            ELSE IF i > 232 /\ i - 232 <= Len(gray) THEN gray[i - 232]
            ELSE InvalidColor]

\* m_colorPalette[index]
ColorPalette(index) == initializeColorPalette[index + 1]

(***************************************************************************)
(* TermChar: one cell.                                                      *)
(***************************************************************************)
TermChar ==
    [character |-> SPACE, foreground |-> DefaultFg, background |-> DefaultBg,
     bold |-> FALSE, italic |-> FALSE, underline |-> FALSE]

BlankRow(cols) == [x \in 0..(cols - 1) |-> TermChar]
BlankBuffer(rows, cols) == [y \in 0..(rows - 1) |-> BlankRow(cols)]

(***************************************************************************)
(* The widget as a record t of its members.  t.oob records that a handler  *)
(* indexed m_buffer outside its size or overflowed a signed int (undefined  *)
(* behaviour in the code).                                                  *)
(***************************************************************************)
InGrid(t, y, x) == y \in DOMAIN t.m_buffer /\ x \in DOMAIN t.m_buffer[y]

\* m_buffer[y][x] = cell
StoreCell(t, y, x, cell) ==
    IF InGrid(t, y, x) THEN [t EXCEPT !.m_buffer[y][x] = cell]
    ELSE [t EXCEPT !.oob = TRUE]

\* m_buffer[y][x].character = ch
StoreGlyph(t, y, x, ch) ==
    IF InGrid(t, y, x) THEN [t EXCEPT !.m_buffer[y][x].character = ch]
    ELSE [t EXCEPT !.oob = TRUE]

\* a glyph write that stores the character alone
AttrCell_PlainGlyph(t, ch) ==
    [character |-> ch, foreground |-> DefaultFg, background |-> DefaultBg,
     bold |-> FALSE, italic |-> FALSE, underline |-> FALSE]

\* the cell a glyph write produces: the glyph with the current attributes
AttrCell(t, ch) ==
    [character |-> ch, foreground |-> t.m_currentFg, background |-> t.m_currentBg,
     bold |-> t.m_bold, italic |-> t.m_italic, underline |-> t.m_underline]

\* scrollUp without the loop that clears the bottom line
scrollUp_KeepsBottom(t) ==
    [t EXCEPT !.m_buffer =
        [y \in DOMAIN t.m_buffer |->
            IF y < t.m_rows - 1 /\ (y + 1) \in DOMAIN t.m_buffer THEN t.m_buffer[y + 1]
            ELSE t.m_buffer[y]]]

scrollUp(t) ==
    [t EXCEPT !.m_buffer =
        [y \in DOMAIN t.m_buffer |->
            IF y < t.m_rows - 1 /\ (y + 1) \in DOMAIN t.m_buffer THEN t.m_buffer[y + 1]
            ELSE [x \in DOMAIN t.m_buffer[y] |->
                    IF x < t.m_cols THEN TermChar ELSE t.m_buffer[y][x]]]]

\* the wrap tail testing m_cursorX >= m_cols - 1: wraps one column early
WrapLine_OneEarly(t) ==
    IF t.m_cursorX >= t.m_cols - 1 THEN
        LET t1 == [t EXCEPT !.m_cursorX = 0, !.m_cursorY = @ + 1] IN
        IF t1.m_cursorY >= t1.m_rows
        THEN [scrollUp(t1) EXCEPT !.m_cursorY = t1.m_rows - 1]
        ELSE t1
    ELSE t

\* the wrap tail testing m_cursorX > m_cols: the wrap waits for the next glyph
WrapLine_Deferred(t) ==
    IF t.m_cursorX > t.m_cols THEN
        LET t1 == [t EXCEPT !.m_cursorX = 0, !.m_cursorY = @ + 1] IN
        IF t1.m_cursorY >= t1.m_rows
        THEN [scrollUp(t1) EXCEPT !.m_cursorY = t1.m_rows - 1]
        ELSE t1
    ELSE t

\* the wrap tail shared by glyph writes and tab: if (m_cursorX >= m_cols) {...}
WrapLine(t) ==
    IF t.m_cursorX >= t.m_cols THEN
        LET t1 == [t EXCEPT !.m_cursorX = 0, !.m_cursorY = @ + 1] IN
        IF t1.m_cursorY >= t1.m_rows
        THEN [scrollUp(t1) EXCEPT !.m_cursorY = t1.m_rows - 1]
        ELSE t1
    ELSE t

\* cells of the inclusive range clearScreen walks
ClearRange(t, startRow, startCol, endRow, endCol) ==
    { <<y, x>> \in (startRow..endRow) \X (0..Max(endCol, t.m_cols - 1)) :
        /\ x >= (IF y = startRow THEN startCol ELSE 0)
        /\ x <= (IF y = endRow THEN endCol ELSE t.m_cols - 1) }

ClearCells(t, cells) ==
    [t EXCEPT
        !.m_buffer = [y \in DOMAIN t.m_buffer |->
                        [x \in DOMAIN t.m_buffer[y] |->
                            IF <<y, x>> \in cells THEN TermChar ELSE t.m_buffer[y][x]]],
        !.oob = @ \/ (\E p \in cells : ~InGrid(t, p[1], p[2]))]

clearScreen(t, startRow, startCol, endRow, endCol) ==
    ClearCells(t, ClearRange(t, startRow, startCol, endRow, endCol))

clearLine(t, row, startCol, endCol) ==
    ClearCells(t, {row} \X (startCol..endCol))

\* resizeBuffer whose copy loop stops one column short
resizeBuffer_CopyShort(t, newRows, newCols) ==
    LET newBuffer ==
            [y \in 0..(newRows - 1) |->
                [x \in 0..(newCols - 1) |->
                    IF y < Min(t.m_rows, newRows) /\ x < Min(t.m_cols, newCols) - 1
                    THEN t.m_buffer[y][x] ELSE TermChar]]
    IN [t EXCEPT !.m_rows = newRows, !.m_cols = newCols, !.m_buffer = newBuffer,
                 !.m_cursorX = Min(t.m_cursorX, newCols - 1),
                 !.m_cursorY = Min(t.m_cursorY, newRows - 1)]

\* resizeBuffer without the two qMin lines that bring the cursor in bounds
resizeBuffer_NoClamp(t, newRows, newCols) ==
    LET newBuffer ==
            [y \in 0..(newRows - 1) |->
                [x \in 0..(newCols - 1) |->
                    IF y < Min(t.m_rows, newRows) /\ x < Min(t.m_cols, newCols)
                    THEN t.m_buffer[y][x] ELSE TermChar]]
    IN [t EXCEPT !.m_rows = newRows, !.m_cols = newCols, !.m_buffer = newBuffer]

resizeBuffer(t, newRows, newCols) ==
    LET newBuffer ==
            [y \in 0..(newRows - 1) |->
                [x \in 0..(newCols - 1) |->
                    IF y < Min(t.m_rows, newRows) /\ x < Min(t.m_cols, newCols)
                    THEN t.m_buffer[y][x] ELSE TermChar]]
    IN [t EXCEPT !.m_rows = newRows, !.m_cols = newCols, !.m_buffer = newBuffer,
                 !.m_cursorX = Min(t.m_cursorX, newCols - 1),
                 !.m_cursorY = Min(t.m_cursorY, newRows - 1)]

(***************************************************************************)
(* QString helpers over sequences of character codes.                       *)
(***************************************************************************)
IsDigit(c) == c >= DIGIT0 /\ c <= DIGIT9

RECURSIVE SplitAcc(_, _, _)
SplitAcc(s, sep, cur) ==
    IF s = <<>> THEN <<cur>>
    ELSE IF Head(s) = sep THEN <<cur>> \o SplitAcc(Tail(s), sep, <<>>)
    ELSE SplitAcc(Tail(s), sep, Append(cur, Head(s)))

\* QString::split(sep): an empty string splits into one empty field
Split(s, sep) == SplitAcc(s, sep, <<>>)

RECURSIVE Trimmed(_)
Trimmed(s) ==
    IF s = <<>> THEN s
    ELSE IF Head(s) = SPACE THEN Trimmed(Tail(s))
    ELSE IF s[Len(s)] = SPACE THEN Trimmed(SubSeq(s, 1, Len(s) - 1))
    ELSE s

RECURSIVE DigitsValue(_, _)
DigitsValue(s, acc) ==
    IF s = <<>> THEN acc ELSE DigitsValue(Tail(s), acc * 10 + (Head(s) - DIGIT0))

IntMax == 2147483647
IntMin == -IntMax - 1

\* a + b leaves the range of int
Overflows(a, b) ==
    \/ b > 0 /\ a > IntMax - b
    \/ b < 0 /\ a < IntMin - b

\* a + b in 32-bit two's complement
AddInt(a, b) ==
    IF b > 0 /\ a > IntMax - b THEN (a - IntMax - 1) + (b - IntMax - 1)
    ELSE IF b < 0 /\ a < IntMin - b THEN (a + IntMax + 1) + (b + IntMax + 1)
    ELSE a + b

RECURSIVE StripZeros(_)
StripZeros(s) ==
    IF Len(s) > 1 /\ Head(s) = DIGIT0 THEN StripZeros(Tail(s)) ELSE s

\* the digits denote a number that an int holds (at most 2147483647)
FitsInt(s) ==
    LET z == StripZeros(s) IN
    \/ Len(z) < 10
    \/ /\ Len(z) = 10
       /\ LET high == DigitsValue(SubSeq(z, 1, 9), 0) IN
              \/ high < IntMax \div 10
              \/ high = IntMax \div 10 /\ z[10] - DIGIT0 <= IntMax % 10

\* param.toInt(&ok); ok ? value : 0   (ok is false for a number no int holds)
ToIntOrZero(s) ==
    LET u == Trimmed(s) IN
    IF u # <<>> /\ (\A i \in 1..Len(u) : IsDigit(u[i])) /\ FitsInt(u)
    THEN DigitsValue(StripZeros(u), 0) ELSE 0

(***************************************************************************)
(* processSGR: the loop over params from index i (1-based here).            *)
(***************************************************************************)
RECURSIVE SGRFrom(_, _, _)
SGRFrom(t, params, i) ==
    IF i > Len(params) THEN t
    ELSE
    LET param == params[i]
        n == Len(params)
        ext256 == i + 2 <= n /\ params[i + 1] = 5
        extRgb == i + 4 <= n /\ params[i + 1] = 2
        inPal == params[i + 2] >= 0 /\ params[i + 2] < 256
    IN
    IF param = 0 THEN
        SGRFrom([t EXCEPT !.m_currentFg = DefaultFg, !.m_currentBg = DefaultBg,
                          !.m_bold = FALSE, !.m_italic = FALSE, !.m_underline = FALSE],
                params, i + 1)
    ELSE IF param = 1 THEN SGRFrom([t EXCEPT !.m_bold = TRUE], params, i + 1)
    ELSE IF param = 3 THEN SGRFrom([t EXCEPT !.m_italic = TRUE], params, i + 1)
    ELSE IF param = 4 THEN SGRFrom([t EXCEPT !.m_underline = TRUE], params, i + 1)
    ELSE IF param = 22 THEN SGRFrom([t EXCEPT !.m_bold = FALSE], params, i + 1)
    ELSE IF param = 23 THEN SGRFrom([t EXCEPT !.m_italic = FALSE], params, i + 1)
    ELSE IF param = 24 THEN SGRFrom([t EXCEPT !.m_underline = FALSE], params, i + 1)
    ELSE IF param \in 30..37 THEN
        SGRFrom([t EXCEPT !.m_currentFg = ColorPalette(param - 30)], params, i + 1)
    ELSE IF param = 38 THEN
        IF ext256 THEN
            SGRFrom(IF inPal THEN [t EXCEPT !.m_currentFg = ColorPalette(params[i + 2])]
                    ELSE t, params, i + 3)
        ELSE IF extRgb THEN
            SGRFrom([t EXCEPT !.m_currentFg =
                        QColor(params[i + 2], params[i + 3], params[i + 4])],
                    params, i + 5)
        ELSE SGRFrom(t, params, i + 1)
    ELSE IF param = 39 THEN SGRFrom([t EXCEPT !.m_currentFg = DefaultFg], params, i + 1)
    ELSE IF param \in 40..47 THEN
        SGRFrom([t EXCEPT !.m_currentBg = ColorPalette(param - 40)], params, i + 1)
    ELSE IF param = 48 THEN
        IF ext256 THEN
            SGRFrom(IF inPal THEN [t EXCEPT !.m_currentBg = ColorPalette(params[i + 2])]
                    ELSE t, params, i + 3)
        ELSE IF extRgb THEN
            SGRFrom([t EXCEPT !.m_currentBg =
                        QColor(params[i + 2], params[i + 3], params[i + 4])],
                    params, i + 5)
        ELSE SGRFrom(t, params, i + 1)
    ELSE IF param = 49 THEN SGRFrom([t EXCEPT !.m_currentBg = DefaultBg], params, i + 1)
    ELSE IF param \in 90..97 THEN
        SGRFrom([t EXCEPT !.m_currentFg = ColorPalette(param - 90 + 8)], params, i + 1)
    ELSE IF param \in 100..107 THEN
        SGRFrom([t EXCEPT !.m_currentBg = ColorPalette(param - 100 + 8)], params, i + 1)
    ELSE SGRFrom(t, params, i + 1)

\* processSGR whose case 0 leaves m_underline alone
processSGR_ResetKeepsUnderline(t, params) ==
    LET r == SGRFrom(t, params, 1)
        cleared == \E i \in 1..Len(params) : params[i] = 24
    IN [r EXCEPT !.m_underline = @ \/ (t.m_underline /\ ~cleared)]

processSGR(t, params) == SGRFrom(t, params, 1)

(***************************************************************************)
(* processEscapeSequence(finalChar, parameters)                             *)
(***************************************************************************)
IsPrivateMode(parameters) ==
    parameters # <<>> /\ (Head(parameters) = QUESTION \/ Head(parameters) = GT)

\* the QVector<int> params the code builds (never empty: split yields a field)
ParseParams(parameters) ==
    LET cleanParams == IF IsPrivateMode(parameters) THEN Tail(parameters) ELSE parameters
        paramList == Split(cleanParams, SEMI)
    IN [i \in 1..Len(paramList) |-> ToIntOrZero(paramList[i])]

\* the private-mode loop without its switch: every parameter sets the flag
SetMode_AnyParameter(t, finalChar, params) ==
    [t EXCEPT !.m_cursorVisible = (finalChar = 104)]

\* the private-mode loop of 'l' / 'h': case 25 sets the flag, once per parameter
SetMode(t, finalChar, params) ==
    IF \E i \in 1..Len(params) : params[i] = 25
    THEN [t EXCEPT !.m_cursorVisible = (finalChar = 104)]
    ELSE t

\* case 's'
saveCursor(t) ==
    [t EXCEPT !.m_savedCursorX = t.m_cursorX, !.m_savedCursorY = t.m_cursorY]

\* case 'u' that empties the slot it restored from
restoreCursor_Consumes(t) ==
    [t EXCEPT !.m_cursorX = t.m_savedCursorX, !.m_cursorY = t.m_savedCursorY,
              !.m_savedCursorX = 0, !.m_savedCursorY = 0]

\* case 'u'
restoreCursor(t) ==
    [t EXCEPT !.m_cursorX = t.m_savedCursorX, !.m_cursorY = t.m_savedCursorY]

\* case 'r' as a terminal that sets margins does it: the cursor goes home
setScrollMargins_Homes(t, params) == [t EXCEPT !.m_cursorX = 0, !.m_cursorY = 0]

\* case 'r': the margins are ignored
setScrollMargins(t, params) == t

processEscapeSequence(t, finalChar, parameters) ==
    LET params == ParseParams(parameters)
        privateMode == IsPrivateMode(parameters)
        p0 == params[1]
    IN
    CASE finalChar = 109 -> processSGR(t, params)                       \* 'm'
      [] finalChar \in {72, 102} ->                                     \* 'H' 'f'
            IF Len(params) >= 2
            THEN [t EXCEPT !.m_cursorY = qBound(0, params[1] - 1, t.m_rows - 1),
                           !.m_cursorX = qBound(0, params[2] - 1, t.m_cols - 1)]
            ELSE [t EXCEPT !.m_cursorX = 0, !.m_cursorY = 0]
      [] finalChar = 65 ->                                              \* 'A'
            [t EXCEPT !.m_cursorY = Max(0, AddInt(@, -Max(1, p0))),
                      !.oob = @ \/ Overflows(t.m_cursorY, -Max(1, p0))]
      [] finalChar = 66 ->                                              \* 'B'
            [t EXCEPT !.m_cursorY = Min(t.m_rows - 1, AddInt(@, Max(1, p0))),
                      !.oob = @ \/ Overflows(t.m_cursorY, Max(1, p0))]
      [] finalChar = 67 ->                                              \* 'C'
            [t EXCEPT !.m_cursorX = Min(t.m_cols - 1, AddInt(@, Max(1, p0))),
                      !.oob = @ \/ Overflows(t.m_cursorX, Max(1, p0))]
      [] finalChar = 68 ->                                              \* 'D'
            [t EXCEPT !.m_cursorX = Max(0, AddInt(@, -Max(1, p0))),
                      !.oob = @ \/ Overflows(t.m_cursorX, -Max(1, p0))]
      [] finalChar = 71 -> [t EXCEPT !.m_cursorX = qBound(0, p0 - 1, t.m_cols - 1)]   \* 'G'
      [] finalChar = 74 ->                                              \* 'J'
            IF p0 = 0 THEN clearScreen(t, t.m_cursorY, t.m_cursorX, t.m_rows - 1, t.m_cols - 1)
            ELSE IF p0 = 1 THEN clearScreen(t, 0, 0, t.m_cursorY, t.m_cursorX)
            ELSE IF p0 \in {2, 3} THEN clearScreen(t, 0, 0, t.m_rows - 1, t.m_cols - 1)
            ELSE t
      [] finalChar = 75 ->                                              \* 'K'
            IF p0 = 0 THEN clearLine(t, t.m_cursorY, t.m_cursorX, t.m_cols - 1)
            ELSE IF p0 = 1 THEN clearLine(t, t.m_cursorY, 0, t.m_cursorX)
            ELSE IF p0 = 2 THEN clearLine(t, t.m_cursorY, 0, t.m_cols - 1)
            ELSE t
      [] finalChar = 115 -> saveCursor(t)                               \* 's'
      [] finalChar = 117 -> restoreCursor(t)                            \* 'u'
      [] finalChar \in {108, 104} ->                                    \* 'l' 'h'
            IF privateMode THEN SetMode(t, finalChar, params) ELSE t
      [] finalChar = 100 -> [t EXCEPT !.m_cursorY = qBound(0, p0 - 1, t.m_rows - 1)]  \* 'd'
      [] finalChar = 114 -> setScrollMargins(t, params)                 \* 'r'
      [] OTHER -> t                                                     \* 'n', unknown

(***************************************************************************)
(* processRegularChar(c).  c is the byte; `char` is signed on the target    *)
(* (x86-64 Linux), so bytes 128..255 are negative and fail `c >= 32`.       *)
(***************************************************************************)
\* `char` unsigned: every byte keeps its value
SignedChar_Unsigned(c) == c

SignedChar(c) == IF c >= 128 THEN c - 256 ELSE c

\* case '\r' without the reset of m_pendingNewline
CarriageReturn_KeepsPending(t) == [t EXCEPT !.m_cursorX = 0]

\* case '\r'
CarriageReturn(t) == [t EXCEPT !.m_cursorX = 0, !.m_pendingNewline = FALSE]

\* case '\n'
LineFeed(t) ==
    IF t.m_pendingNewline THEN [t EXCEPT !.m_pendingNewline = FALSE]
    ELSE LET t1 == [t EXCEPT !.m_pendingNewline = TRUE, !.m_cursorY = @ + 1]
             t2 == IF t1.m_cursorY >= t1.m_rows
                   THEN [scrollUp(t1) EXCEPT !.m_cursorY = t1.m_rows - 1]
                   ELSE t1
         IN [t2 EXCEPT !.m_cursorX = 0]

\* case '\t' that stays on a tab stop it already stands on
HorizontalTab_StaysOnStop(t) ==
    WrapLine([t EXCEPT !.m_cursorX = ((@ + 7) \div 8) * 8])

\* case '\t'
HorizontalTab(t) ==
    WrapLine([t EXCEPT !.m_cursorX = ((@ + 8) \div 8) * 8])

processRegularChar(t, c) ==
    CASE c = CR -> CarriageReturn(t)
      [] c = LF -> LineFeed(t)
      [] c = BS -> IF t.m_cursorX > 0 THEN [t EXCEPT !.m_cursorX = @ - 1] ELSE t
      [] c = TAB -> HorizontalTab(t)
      [] c = BEL -> t
      [] OTHER ->
            IF SignedChar(c) >= 32 THEN
                LET t1 == [t EXCEPT !.m_pendingNewline = FALSE]
                    t2 == StoreCell(t1, t1.m_cursorY, t1.m_cursorX, AttrCell(t1, c))
                IN WrapLine([t2 EXCEPT !.m_cursorX = @ + 1])
            ELSE t

(***************************************************************************)
(* QString::fromUtf8 on a buffer that starts with a lead byte and holds the *)
(* announced number of continuation bytes: the UTF-16 code units of the     *)
(* result.  A scalar above U+FFFF becomes a surrogate pair, an ill-formed   *)
(* sequence (overlong, surrogate, above U+10FFFF) starts with U+FFFD, and a *)
(* leading byte order mark is dropped.                                      *)
(***************************************************************************)
Utf8Scalar(b) ==
    IF Len(b) = 2 THEN (b[1] - 192) * 64 + (b[2] - 128)
    ELSE IF Len(b) = 3 THEN (b[1] - 224) * 4096 + (b[2] - 128) * 64 + (b[3] - 128)
    ELSE (b[1] - 240) * 262144 + (b[2] - 128) * 4096 + (b[3] - 128) * 64 + (b[4] - 128)

Utf8WellFormed(b) ==
    LET cp == Utf8Scalar(b) IN
    IF Len(b) = 2 THEN cp >= 128
    ELSE IF Len(b) = 3 THEN cp >= 2048 /\ ~(cp \in 55296..57343)
    ELSE cp >= 65536 /\ cp <= 1114111

FromUtf8(b) ==
    LET cp == Utf8Scalar(b) IN
    IF ~Utf8WellFormed(b) THEN <<65533>>
    ELSE IF cp = 65279 THEN <<>>
    ELSE IF cp >= 65536
         THEN <<55296 + ((cp - 65536) \div 1024), 56320 + ((cp - 65536) % 1024)>>
    ELSE <<cp>>

\* the range test on ch.unicode(), a 16-bit code unit
IsWide(unicode) ==
    \/ (unicode >= 12288 /\ unicode <= 40959)
    \/ (unicode >= 44032 /\ unicode <= 55215)
    \/ (unicode >= 63744 /\ unicode <= 64255)
    \/ (unicode >= 65280 /\ unicode <= 65519)
    \/ (unicode >= 131072 /\ unicode <= 196607)

processUtf8Sequence(t, utf8Bytes) ==
    LET str == FromUtf8(utf8Bytes) IN
    IF str = <<>> THEN t
    ELSE
    LET ch == str[1]
        t1 == StoreCell(t, t.m_cursorY, t.m_cursorX, AttrCell(t, ch))
        t2 == [t1 EXCEPT !.m_cursorX = @ + 1]
        t3 == IF IsWide(ch) /\ t2.m_cursorX < t2.m_cols
              THEN [StoreGlyph(t2, t2.m_cursorY, t2.m_cursorX, SPACE)
                        EXCEPT !.m_cursorX = @ + 1]
              ELSE t2
    IN WrapLine(t3)

(***************************************************************************)
(* processChar(c): the escape-sequence state machine.                       *)
(***************************************************************************)
IsParamStart(c) == IsDigit(c) \/ c = SEMI \/ c = QUESTION \/ c = SPACE \/ c = GT
IsParamCont(c) == IsParamStart(c) \/ c = EQUALS

EndsWithEsc(s) == s # <<>> /\ s[Len(s)] = ESC

\* case EscapeState::None
StateNone(t, c) ==
    IF c = ESC THEN [t EXCEPT !.m_escapeState = "Escape", !.m_escapeSequence = <<>>]
    ELSE processRegularChar(t, c)

\* the Escape case without its `%` branch
StateEscape_PercentAborts(t, c) ==
    IF c = LBRACKET THEN [t EXCEPT !.m_escapeState = "Bracket"]
    ELSE IF c = RBRACKET THEN [t EXCEPT !.m_escapeState = "OSC", !.m_escapeSequence = <<>>]
    ELSE processRegularChar([t EXCEPT !.m_escapeState = "None"], c)

\* case EscapeState::Escape
StateEscape(t, c) ==
    IF c = LBRACKET THEN [t EXCEPT !.m_escapeState = "Bracket"]
    ELSE IF c = RBRACKET THEN [t EXCEPT !.m_escapeState = "OSC", !.m_escapeSequence = <<>>]
    ELSE IF c = PERCENT THEN t
    ELSE processRegularChar([t EXCEPT !.m_escapeState = "None"], c)

\* case EscapeState::Bracket
StateBracket(t, c) ==
    IF IsParamStart(c)
    THEN [t EXCEPT !.m_escapeSequence = Append(@, c), !.m_escapeState = "Parameter"]
    ELSE [processEscapeSequence(t, c, t.m_escapeSequence) EXCEPT !.m_escapeState = "None"]

\* case EscapeState::Parameter
StateParameter(t, c) ==
    IF IsParamCont(c) THEN [t EXCEPT !.m_escapeSequence = Append(@, c)]
    ELSE [processEscapeSequence(t, c, t.m_escapeSequence) EXCEPT !.m_escapeState = "None"]

\* case EscapeState::OSC
StateOSC(t, c) ==
    IF IsDigit(c) THEN [t EXCEPT !.m_escapeSequence = Append(@, c)]
    ELSE IF c = SEMI
         THEN [t EXCEPT !.m_escapeSequence = Append(@, c), !.m_escapeState = "OSCParameter"]
    ELSE [t EXCEPT !.m_escapeState = "None"]

\* case EscapeState::OSCParameter
StateOSCParameter(t, c) ==
    IF c = BEL \/ (c = BACKSLASH /\ EndsWithEsc(t.m_escapeSequence))
    THEN [t EXCEPT !.m_escapeState = "None"]
    ELSE [t EXCEPT !.m_escapeSequence = Append(@, c)]

processChar(t, c) ==
    CASE t.m_escapeState = "None" -> StateNone(t, c)
      [] t.m_escapeState = "Escape" -> StateEscape(t, c)
      [] t.m_escapeState = "Bracket" -> StateBracket(t, c)
      [] t.m_escapeState = "Parameter" -> StateParameter(t, c)
      [] t.m_escapeState = "OSC" -> StateOSC(t, c)
      [] OTHER -> StateOSCParameter(t, c)

(***************************************************************************)
(* processOutput(data): the UTF-8 recombination loop, one byte per turn.    *)
(***************************************************************************)
IsContinuation(c) == c \div 64 = 2          \* (c & 0xC0) == 0x80

\* remaining continuation bytes a lead byte announces, 0 for anything else
LeadRemaining(c) ==
    IF c \div 32 = 6 THEN 1                 \* (c & 0xE0) == 0xC0
    ELSE IF c \div 16 = 14 THEN 2           \* (c & 0xF0) == 0xE0
    ELSE IF c \div 8 = 30 THEN 3            \* (c & 0xF8) == 0xF0
    ELSE 0

\* the part of the loop body after the pending-sequence check
FreshByte(t, c) ==
    IF c >= 128 /\ LeadRemaining(c) > 0
    THEN [t EXCEPT !.m_utf8Remaining = LeadRemaining(c), !.m_utf8Buffer = <<c>>]
    ELSE processChar(t, c)

\* the loop body with a `continue` after the reset of an aborted sequence
ProcessByte_DropsOffender(t, c) ==
    IF t.m_utf8Remaining > 0 THEN
        IF IsContinuation(c) THEN
            LET t1 == [t EXCEPT !.m_utf8Buffer = Append(@, c), !.m_utf8Remaining = @ - 1] IN
            IF t1.m_utf8Remaining = 0
            THEN [processUtf8Sequence(t1, t1.m_utf8Buffer) EXCEPT !.m_utf8Buffer = <<>>]
            ELSE t1
        ELSE [t EXCEPT !.m_utf8Remaining = 0, !.m_utf8Buffer = <<>>]
    ELSE FreshByte(t, c)

\* one turn of the while loop
ProcessByte(t, c) ==
    IF t.m_utf8Remaining > 0 THEN
        IF IsContinuation(c) THEN
            LET t1 == [t EXCEPT !.m_utf8Buffer = Append(@, c), !.m_utf8Remaining = @ - 1] IN
            IF t1.m_utf8Remaining = 0
            THEN [processUtf8Sequence(t1, t1.m_utf8Buffer) EXCEPT !.m_utf8Buffer = <<>>]
            ELSE t1
        ELSE FreshByte([t EXCEPT !.m_utf8Remaining = 0, !.m_utf8Buffer = <<>>], c)
    ELSE FreshByte(t, c)

RECURSIVE ProcessBytes(_, _)
ProcessBytes(t, data) ==
    IF data = <<>> THEN t ELSE ProcessBytes(ProcessByte(t, Head(data)), Tail(data))

\* processOutput with the decoder state local to one call
processOutput_LocalDecoder(t, data) ==
    ProcessBytes([t EXCEPT !.m_utf8Remaining = 0, !.m_utf8Buffer = <<>>], data)

processOutput(t, data) == ProcessBytes(t, data)

(***************************************************************************)
(* State: the members of TerminalWidget, and the bookkeeping of the model.  *)
(***************************************************************************)
VARIABLES
    m_rows, m_cols, m_buffer,
    m_currentFg, m_currentBg, m_bold, m_italic, m_underline,
    m_cursorX, m_cursorY, m_savedCursorX, m_savedCursorY,
    m_cursorVisible, m_pendingNewline,
    m_utf8Remaining, m_utf8Buffer,
    m_escapeState, m_escapeSequence,
    m_childPid, m_masterFd,
    crashed,    \* the process died on an out-of-range m_buffer index
    prev,       \* the members before the latest event
    last,       \* the latest event: its kind and its input (a resize also
                \* tells the kind of the event it came after)
    fed,        \* the bytes consumed so far, in order (kept where replayed)
    nRead,      \* input consumed so far (bytes, or whole sequences)
    nResize,    \* number of resize events so far
    pty         \* the operating system's side: the child process, the master
                \* descriptor, the bytes in flight, and whether the widget
                \* has been destroyed

members ==
    <<m_rows, m_cols, m_buffer, m_currentFg, m_currentBg, m_bold, m_italic,
      m_underline, m_cursorX, m_cursorY, m_savedCursorX, m_savedCursorY,
      m_cursorVisible, m_pendingNewline, m_utf8Remaining, m_utf8Buffer,
      m_escapeState, m_escapeSequence>>

vars == <<members, m_childPid, m_masterFd, crashed, prev, last, fed, nRead, nResize, pty>>

\* the members as a record
Self ==
    [m_rows |-> m_rows, m_cols |-> m_cols, m_buffer |-> m_buffer,
     m_currentFg |-> m_currentFg, m_currentBg |-> m_currentBg,
     m_bold |-> m_bold, m_italic |-> m_italic, m_underline |-> m_underline,
     m_cursorX |-> m_cursorX, m_cursorY |-> m_cursorY,
     m_savedCursorX |-> m_savedCursorX, m_savedCursorY |-> m_savedCursorY,
     m_cursorVisible |-> m_cursorVisible, m_pendingNewline |-> m_pendingNewline,
     m_utf8Remaining |-> m_utf8Remaining, m_utf8Buffer |-> m_utf8Buffer,
     m_escapeState |-> m_escapeState, m_escapeSequence |-> m_escapeSequence,
     oob |-> FALSE]

\* the members after a handler that computed t
Commit(t) ==
    /\ m_rows' = t.m_rows /\ m_cols' = t.m_cols /\ m_buffer' = t.m_buffer
    /\ m_currentFg' = t.m_currentFg /\ m_currentBg' = t.m_currentBg
    /\ m_bold' = t.m_bold /\ m_italic' = t.m_italic /\ m_underline' = t.m_underline
    /\ m_cursorX' = t.m_cursorX /\ m_cursorY' = t.m_cursorY
    /\ m_savedCursorX' = t.m_savedCursorX /\ m_savedCursorY' = t.m_savedCursorY
    /\ m_cursorVisible' = t.m_cursorVisible /\ m_pendingNewline' = t.m_pendingNewline
    /\ m_utf8Remaining' = t.m_utf8Remaining /\ m_utf8Buffer' = t.m_utf8Buffer
    /\ m_escapeState' = t.m_escapeState /\ m_escapeSequence' = t.m_escapeSequence

(***************************************************************************)
(* A handler that indexed m_buffer out of range has undefined behaviour:    *)
(* the process dies (QVector's range assertion, or a fault), or the access  *)
(* lands outside the grid and the handler runs on with the grid untouched.  *)
(* A handler that overflowed an int dies (a trapping build) or runs on with *)
(* the wrapped value.                                                       *)
(***************************************************************************)
Finish(t) ==
    IF t.oob
    THEN \/ (crashed' = TRUE /\ UNCHANGED members)
         \/ (crashed' = FALSE /\ Commit([t EXCEPT !.oob = FALSE]))
    ELSE crashed' = FALSE /\ Commit(t)

\* the widget the constructor builds, with a grid of rows x cols
ConstructedAs(rows, cols) ==
    [m_rows |-> rows, m_cols |-> cols,
     m_buffer |-> BlankBuffer(rows, cols),
     m_currentFg |-> DefaultFg, m_currentBg |-> DefaultBg,
     m_bold |-> FALSE, m_italic |-> FALSE, m_underline |-> FALSE,
     m_cursorX |-> 0, m_cursorY |-> 0, m_savedCursorX |-> 0, m_savedCursorY |-> 0,
     m_cursorVisible |-> TRUE, m_pendingNewline |-> FALSE,
     m_utf8Remaining |-> 0, m_utf8Buffer |-> <<>>,
     m_escapeState |-> "None", m_escapeSequence |-> <<>>,
     oob |-> FALSE]

Constructed == ConstructedAs(InitRows, InitCols)

\* startPty: forkpty either yields a child and a descriptor, or fails
\* the operating system's side after forkpty:
\*   child    "none", "running" or "exited" (the shell)
\*   open     the master descriptor is open
\*   waiting  bytes the child wrote that no read() has returned yet
\*   produced the bytes the child has written so far, in order
\*   written  bytes write() has delivered to the child, in order
\*   keys     how many key events there have been
\*   errored  a read() or write() has failed with an error other than EAGAIN
\*   ioAfterError  a read() or write() was attempted after such a failure
\*   destroyed     the destructor has run
\*   io       read() or write() has been called
\*   signalled     kill() has been called
\*   rows, cols    the window size the terminal driver holds (forkpty is
\*                 given no winsize, so the driver starts with 0 x 0)
\*   typed    the bytes the key events so far were mapped to, in order
Forked(forkOk) ==
    [child |-> IF forkOk THEN "running" ELSE "none", open |-> forkOk,
     waiting |-> <<>>, produced |-> <<>>, written |-> <<>>, keys |-> 0,
     errored |-> FALSE, ioAfterError |-> FALSE, destroyed |-> FALSE,
     io |-> FALSE, signalled |-> FALSE, rows |-> 0, cols |-> 0, typed |-> <<>>]

startPty(forkOk) ==
    /\ IF forkOk THEN m_childPid = 1 /\ m_masterFd = 3
       ELSE m_childPid = -1 /\ m_masterFd = -1
    /\ pty = Forked(forkOk)

InitAs(rows, cols) ==
    /\ m_rows = rows /\ m_cols = cols
    /\ m_buffer = BlankBuffer(rows, cols)
    /\ m_currentFg = DefaultFg /\ m_currentBg = DefaultBg
    /\ m_bold = FALSE /\ m_italic = FALSE /\ m_underline = FALSE
    /\ m_cursorX = 0 /\ m_cursorY = 0 /\ m_savedCursorX = 0 /\ m_savedCursorY = 0
    /\ m_cursorVisible = TRUE /\ m_pendingNewline = FALSE
    /\ m_utf8Remaining = 0 /\ m_utf8Buffer = <<>>
    /\ m_escapeState = "None" /\ m_escapeSequence = <<>>
    /\ \E forkOk \in BOOLEAN : startPty(forkOk)
    /\ crashed = FALSE
    /\ prev = ConstructedAs(rows, cols)
    /\ last = [kind |-> "init", data |-> <<>>]
    /\ fed = <<>>
    /\ nRead = 0
    /\ nResize = 0

Init == InitAs(InitRows, InitCols)

(***************************************************************************)
(* readFromPty: the poll timer's slot.  read() returns the next chunk the   *)
(* child wrote (data); nothing happens without a descriptor.                *)
(***************************************************************************)
readFromPty(t, data) == processOutput(t, data)

Read(data, cost, budget, track) ==
    /\ ~crashed
    /\ m_masterFd >= 0
    /\ nRead + cost <= budget
    /\ Finish(readFromPty(Self, data))
    /\ prev' = Self
    /\ last' = [kind |-> "read", data |-> data]
    /\ fed' = IF track THEN fed \o data ELSE fed
    /\ nRead' = nRead + cost
    /\ pty' = [pty EXCEPT !.io = TRUE]
    /\ UNCHANGED <<m_childPid, m_masterFd, nResize>>

(***************************************************************************)
(* resizeEvent: the window system reports a new pixel size.                 *)
(***************************************************************************)
CharWidth == 2
CharHeight == 2

\* one size too small for a single cell, and one for every larger grid
PixelWidths == {0} \cup {c * CharWidth + 1 : c \in 2..MaxCols}
PixelHeights == {0} \cup {r * CharHeight + 1 : r \in 2..MaxRows}

\* resizeEvent without the qMax(1, ...) lines
resizeEvent_NoMinimum(t, width, height) ==
    LET newCols == width \div CharWidth
        newRows == height \div CharHeight
    IN IF newCols # t.m_cols \/ newRows # t.m_rows
       THEN resizeBuffer(t, newRows, newCols)
       ELSE t

resizeEvent(t, width, height) ==
    LET newCols == Max(1, width \div CharWidth)
        newRows == Max(1, height \div CharHeight)
    IN IF newCols # t.m_cols \/ newRows # t.m_rows
       THEN resizeBuffer(t, newRows, newCols)
       ELSE t

\* the ioctl(TIOCSWINSZ) of resizeEvent: made when the size computed from the
\* event differs from the grid's (t is the widget before the event) and
\* there is a descriptor
notifyPty(p, t, masterFd, width, height) ==
    LET newCols == Max(1, width \div CharWidth)
        newRows == Max(1, height \div CharHeight)
    IN IF (newCols # t.m_cols \/ newRows # t.m_rows) /\ masterFd >= 0
       THEN [p EXCEPT !.rows = newRows, !.cols = newCols]
       ELSE p

ResizeEvent ==
    /\ ~crashed /\ ~pty.destroyed
    /\ nResize < MaxResizes
    /\ \E width \in PixelWidths, height \in PixelHeights :
        /\ Finish(resizeEvent(Self, width, height))
        /\ pty' = notifyPty(pty, Self, m_masterFd, width, height)
        /\ last' = [kind |-> "resize", data |-> <<width, height>>, after |-> last.kind]
    /\ prev' = Self
    /\ nResize' = nResize + 1
    /\ UNCHANGED <<m_childPid, m_masterFd, fed, nRead>>

(***************************************************************************)
(* The cursor blink timer's lambda.                                         *)
(***************************************************************************)
BlinkTick ==
    /\ ~crashed
    /\ Finish([Self EXCEPT !.m_cursorVisible = ~@])
    /\ prev' = Self
    /\ last' = [kind |-> "blink", data |-> <<>>]
    /\ UNCHANGED <<m_childPid, m_masterFd, fed, nRead, nResize, pty>>

(***************************************************************************)
(* Spec, the full system: the child may write any bytes of Alphabet, and    *)
(* read() may cut them into chunks of 1..MaxChunk bytes.                    *)
(*   Alphabet: LF ESC % ; [ ] a, the two bytes of U+00E9 (C3 A9), the lead  *)
(*   byte E4 of a three-byte sequence, and FF, which no sequence contains.  *)
(***************************************************************************)
Alphabet == {LF, ESC, PERCENT, SEMI, LBRACKET, RBRACKET, 97, 195, 169, 228, 255}

RECURSIVE SeqsOfLen(_, _)
SeqsOfLen(S, n) ==
    IF n = 0 THEN {<<>>}
    ELSE {Append(s, x) : s \in SeqsOfLen(S, n - 1), x \in S}

Chunks(S, maxLen) == UNION {SeqsOfLen(S, n) : n \in 1..maxLen}

ReadFromPty == \E data \in Chunks(Alphabet, MaxChunk) : Read(data, Len(data), MaxInput, FALSE)

Next == ReadFromPty \/ ResizeEvent \/ BlinkTick

Spec == Init /\ [][Next]_vars

(***************************************************************************)
(* SpecStream: the byte stream alone, one byte per read.                    *)
(***************************************************************************)
ReadByte == \E c \in Alphabet : Read(<<c>>, 1, MaxInput, FALSE)

NextStream == ReadByte

SpecStream == Init /\ [][NextStream]_vars

(***************************************************************************)
(* SpecChunk: the byte stream cut into chunks, with the bytes remembered so *)
(* that the whole stream can be replayed as one chunk.                      *)
(***************************************************************************)
ChunkAlphabet == {LF, ESC, LBRACKET, 74, 97, 195, 169}

ReadChunk == \E data \in Chunks(ChunkAlphabet, MaxChunk) : Read(data, Len(data), MaxInput, TRUE)

NextChunk == ReadChunk

SpecChunk == Init /\ [][NextChunk]_vars

(***************************************************************************)
(* SpecScreen: the child writes whole characters and whole escape           *)
(* sequences, each read in one piece, while the window is resized.          *)
(*   a, LF, TAB, ESC [ J, ESC [ s, ESC [ u, U+00E9, U+4E2D, U+1F600         *)
(***************************************************************************)
ScreenChunks ==
    { <<97>>, <<LF>>, <<TAB>>,
      <<ESC, LBRACKET, 74>>, <<ESC, LBRACKET, 115>>, <<ESC, LBRACKET, 117>>,
      <<195, 169>>, <<228, 184, 173>>, <<240, 159, 152, 128>> }

ReadSequence == \E data \in ScreenChunks : Read(data, 1, MaxSequences, FALSE)

NextScreen == ReadSequence \/ ResizeEvent

SpecScreen == Init /\ [][NextScreen]_vars

(***************************************************************************)
(* SpecText: the child writes runs of printable characters, line ends and   *)
(* multi-byte characters, each read in one piece.                           *)
(*   a, ab, abc, ... up to a full row; CR LF; LF; U+00E9, U+4E2D, U+20000;  *)
(*   the lone lead byte E4; ESC [ H; and ESC [, which leaves the parser in  *)
(*   Bracket.                                                               *)
(***************************************************************************)
\* the first n letters of the alphabet
Run(n) == [i \in 1..n |-> 96 + i]

TextChunks ==
    {Run(n) : n \in 1..MaxCols} \cup
    { <<CR, LF>>, <<LF>>,
      <<195, 169>>, <<228, 184, 173>>, <<240, 160, 128, 128>>,
      <<228>>, <<ESC, LBRACKET, 72>>, <<ESC, LBRACKET>> }

ReadText == \E data \in TextChunks : Read(data, 1, MaxSequences, FALSE)

NextText == ReadText

SpecText == Init /\ [][NextText]_vars

(***************************************************************************)
(* SpecSgr: the child writes whole SGR commands, ESC [ p1 ; ... ; pn m.     *)
(***************************************************************************)
RECURSIVE Decimal(_)
Decimal(n) == IF n < 10 THEN <<DIGIT0 + n>> ELSE Append(Decimal(n \div 10), DIGIT0 + (n % 10))

RECURSIVE JoinParams(_)
JoinParams(ps) ==
    IF ps = <<>> THEN <<>>
    ELSE IF Len(ps) = 1 THEN Decimal(ps[1])
    ELSE Decimal(ps[1]) \o <<SEMI>> \o JoinParams(Tail(ps))

SgrCommand(ps) == <<ESC, LBRACKET>> \o JoinParams(ps) \o <<109>>

\* parameter lists: reset (also with no parameter), the setters and clearers
\* of bold, italic and underline, colours, palette and direct-colour
\* selectors, an out-of-range index, truncated selectors, an unknown code
SgrParams ==
    { <<0>>, <<>>, <<1>>, <<3>>, <<4>>, <<22>>, <<23>>, <<24>>,
      <<1, 3, 4, 31, 44>>, <<0, 1, 3, 4, 0>>,
      <<31>>, <<39>>, <<44>>, <<49>>, <<5>>,
      <<38, 5, 1>>, <<38, 5, 16>>, <<38, 5, 231>>, <<38, 5, 232>>, <<38, 5, 255>>,
      <<38, 5, 256>>, <<48, 5, 4>>, <<48, 5, 256>>,
      <<38, 2, 1, 3, 4>>, <<48, 2, 1, 3, 4>>,
      <<38>>, <<38, 5>>, <<48, 5>>, <<38, 2, 1>>, <<48, 2, 3, 4>> }

ReadSgr == \E ps \in SgrParams : Read(SgrCommand(ps), 1, MaxSequences, FALSE)

NextSgr == ReadSgr

SpecSgr == Init /\ [][NextSgr]_vars

(***************************************************************************)
(* SpecAttr: on a grid wide enough for three characters and the cursor      *)
(* after them, the child writes X, ESC [ 3k m, Y, ESC [ 0 m, Z.             *)
(***************************************************************************)
Letters == {65, 66}

Scenario(X, k, Y, Z) ==
    <<X>> \o SgrCommand(<<30 + k>>) \o <<Y>> \o SgrCommand(<<0>>) \o <<Z>>

AttrScenarios ==
    {Scenario(X, k, Y, Z) : X \in Letters, k \in 0..7, Y \in Letters, Z \in Letters}

ReadScenario == \E data \in AttrScenarios : Read(data, 1, MaxScenarios, FALSE)

NextAttr == ReadScenario

InitWide == InitAs(InitRows, WideCols)

SpecAttr == InitWide /\ [][NextAttr]_vars

(***************************************************************************)
(* SpecResize: the window is resized while the child's output is under way, *)
(* also in the middle of an escape sequence or of a multi-byte character.   *)
(*   a, LF, ESC [ 1 ; 31 m, ESC [ (an open sequence), the digit 1, and the  *)
(*   lead byte E4                                                           *)
(***************************************************************************)
ResizeChunks ==
    { <<97>>, <<LF>>, SgrCommand(<<1, 31>>), <<ESC, LBRACKET>>, <<49>>, <<228>> }

ReadBetweenResizes == \E data \in ResizeChunks : Read(data, 1, MaxSequences, FALSE)

NextResize == ReadBetweenResizes \/ ResizeEvent

SpecResize == Init /\ [][NextResize]_vars

(***************************************************************************)
(* SpecCup: the child writes text and absolute cursor moves: ESC [ p1;p2 H  *)
(* and f, ESC [ p G, ESC [ p d, and H / f with one parameter or none.       *)
(***************************************************************************)
\* ESC [ text final
CsiCommand(text, final) == <<ESC, LBRACKET>> \o text \o <<final>>

\* 9999999999, a parameter above the largest int
Huge == <<57, 57, 57, 57, 57, 57, 57, 57, 57, 57>>

\* the number a parameter text denotes, saturated at the largest int
Denoted(text) == IF FitsInt(text) THEN DigitsValue(StripZeros(text), 0) ELSE IntMax

\* parameter texts below, at and beyond the edges of the grid
CupPairs ==
    {<<Decimal(p[1]), Decimal(p[2])>> :
        p \in {<<0, 0>>, <<1, 1>>, <<2, 2>>, <<2, 1>>, <<1, 3>>, <<9, 9>>}} \cup
    {<<Huge, Decimal(1)>>, <<Decimal(2), Huge>>}
CupSingles == {Decimal(0), Decimal(1), Decimal(2), Decimal(9), Huge}

CupChunks ==
    { <<97>>, <<LF>> } \cup
    {CsiCommand(ps[1] \o <<SEMI>> \o ps[2], final) : ps \in CupPairs, final \in {72, 102}} \cup
    {CsiCommand(n, final) : n \in CupSingles, final \in {71, 100}} \cup
    {CsiCommand(Decimal(2), final) : final \in {72, 102}} \cup
    {CsiCommand(<<>>, final) : final \in {72, 102}}

ReadCup == \E data \in CupChunks : Read(data, 1, MaxSequences, FALSE)

NextCup == ReadCup

SpecCup == Init /\ [][NextCup]_vars

(***************************************************************************)
(* SpecMove: the child writes text and relative cursor moves ESC [ n A / B  *)
(* / C / D with n omitted, empty, blank, non-numeric, small, the largest    *)
(* int and above it.                                                        *)
(***************************************************************************)
MoveTexts ==
    { <<>>, <<SEMI>>, <<SPACE>>, <<49, EQUALS>>,
      Decimal(0), Decimal(1), Decimal(2), Decimal(IntMax), Huge }

MoveChunks ==
    { <<97>>, <<LF>> } \cup
    {CsiCommand(text, final) : text \in MoveTexts, final \in {65, 66, 67, 68}}

ReadMove == \E data \in MoveChunks : Read(data, 1, MaxSequences, FALSE)

NextMove == ReadMove

SpecMove == Init /\ [][NextMove]_vars

(***************************************************************************)
(* SpecErase: the child paints the grid in bold red, places the cursor and  *)
(* erases with ESC [ n J / ESC [ n K.                                       *)
(***************************************************************************)
\* bold red text over all of the grid but its last cell
Paint == SgrCommand(<<1, 31>>) \o [i \in 1..(InitRows * InitCols - 1) |-> 97]

EraseTexts == { <<>>, Decimal(0), Decimal(1), Decimal(2), Decimal(3), Decimal(4), Huge }

EraseChunks ==
    { Paint, <<97>>, <<LF>>,
      CsiCommand(JoinParams(<<1, 2>>), 72), CsiCommand(JoinParams(<<2, 2>>), 72) } \cup
    {CsiCommand(text, final) : text \in EraseTexts, final \in {74, 75}}

ReadErase == \E data \in EraseChunks : Read(data, 1, MaxSequences, FALSE)

NextErase == ReadErase

SpecErase == Init /\ [][NextErase]_vars

(***************************************************************************)
(* SpecSave: the child writes text, cursor moves, an erase, an attribute    *)
(* change and ESC [ s / ESC [ u, while the window is resized.               *)
(***************************************************************************)
SaveChunks ==
    { <<97>>, <<LF>>, CsiCommand(<<>>, 115), CsiCommand(<<>>, 117),
      CsiCommand(JoinParams(<<2, 2>>), 72), CsiCommand(Decimal(2), 74), SgrCommand(<<1>>) }

ReadSave == \E data \in SaveChunks : Read(data, 1, MaxSequences, FALSE)

NextSave == ReadSave \/ ResizeEvent

SpecSave == Init /\ [][NextSave]_vars

(***************************************************************************)
(* SpecMode: the child writes text, other CSI commands and ESC [ text h /   *)
(* ESC [ text l with and without the private marker and the parameter 25.   *)
(***************************************************************************)
\* ?25   >25   ?1;25   ? 25 : marked, and 25 is among the parameters
Texts25 ==
    { <<QUESTION, 50, 53>>, <<GT, 50, 53>>, <<QUESTION, 49, SEMI, 50, 53>>,
      <<QUESTION, SPACE, 50, 53>> }

\* (none)   25   ?1   ?   1;25   ?2;5 : no marker, or no parameter 25
TextsOther ==
    { <<>>, <<50, 53>>, <<QUESTION, 49>>, <<QUESTION>>, <<49, SEMI, 50, 53>>,
      <<QUESTION, 50, SEMI, 53>> }

ModeChunks ==
    { <<97>>, <<LF>>, SgrCommand(<<1, 31>>), CsiCommand(JoinParams(<<2, 2>>), 72),
      CsiCommand(Decimal(25), 74), CsiCommand(<<QUESTION, 50, 53>>, 109),
      CsiCommand(<<QUESTION, 50, 53>>, 115) } \cup
    {CsiCommand(text, final) : text \in Texts25 \cup TextsOther, final \in {104, 108}}

ReadMode == \E data \in ModeChunks : Read(data, 1, MaxSequences, FALSE)

NextMode == ReadMode

SpecMode == Init /\ [][NextMode]_vars

(***************************************************************************)
(* SpecPty: the pseudo-terminal between the widget and the shell.  The      *)
(* child writes bytes that wait on the master until a poll tick reads them, *)
(* the child may exit, the user presses keys, and the widget is destroyed.  *)
(***************************************************************************)
ChildBytes == {97, LF}

\* the child writes one byte to its terminal
ChildWrites ==
    /\ pty.child = "running" /\ pty.open
    /\ Len(pty.produced) < MaxOutput
    /\ \E b \in ChildBytes :
          pty' = [pty EXCEPT !.waiting = Append(@, b), !.produced = Append(@, b)]
    /\ UNCHANGED <<members, m_childPid, m_masterFd, crashed, prev, last, fed, nRead, nResize>>

\* the shell exits; what it wrote stays readable
ChildExits ==
    /\ pty.child = "running"
    /\ pty' = [pty EXCEPT !.child = "exited"]
    /\ UNCHANGED <<members, m_childPid, m_masterFd, crashed, prev, last, fed, nRead, nResize>>

\* what stays on the descriptor after a read() that lost track of one byte
Unread_SkipsOne(waiting, n) == SubSeq(waiting, n + 2, Len(waiting))

\* what stays on the descriptor after read() has returned the first n bytes
Unread(waiting, n) == SubSeq(waiting, n + 1, Len(waiting))

\* One tick of the read timer: readFromPty.  Without a descriptor it returns;
\* otherwise it calls read() once, for at most sizeof(buffer) - 1 bytes:
\*   bytes waiting                -> the first of them, handed to processOutput
\*   none and the child has exited -> -1 with EIO: logged, nothing else
\*   none otherwise               -> -1 with EAGAIN: nothing
PollTick ==
    /\ ~crashed /\ ~pty.destroyed
    /\ prev' = Self
    /\ IF m_masterFd < 0
       THEN /\ last' = [kind |-> "poll", data |-> <<>>, pending |-> pty.waiting,
                        result |-> "skipped"]
            /\ UNCHANGED <<members, crashed, pty, nRead, fed>>
       ELSE IF pty.waiting # <<>>
       THEN LET n == Min(Len(pty.waiting), ReadCapacity)
                data == SubSeq(pty.waiting, 1, n)
            IN /\ \E t \in {readFromPty(Self, data)} : Finish(t)
               /\ pty' = [pty EXCEPT !.waiting = Unread(@, n), !.io = TRUE,
                                     !.ioAfterError = @ \/ pty.errored]
               /\ last' = [kind |-> "poll", data |-> data, pending |-> pty.waiting,
                           result |-> "data"]
               /\ nRead' = nRead + n
               /\ fed' = fed \o data
       ELSE /\ pty' = [pty EXCEPT !.errored = @ \/ pty.child = "exited", !.io = TRUE,
                                  !.ioAfterError = @ \/ pty.errored]
            /\ last' = [kind |-> "poll", data |-> <<>>, pending |-> <<>>,
                        result |-> IF pty.child = "exited" THEN "error" ELSE "wouldblock"]
            /\ UNCHANGED <<members, crashed, nRead, fed>>
    /\ UNCHANGED <<m_childPid, m_masterFd, nResize>>

Keys == {"a", "Return", "Up", "Ctrl+C"}

\* the bytes keyPressEvent maps the key to
KeyBytes(key) ==
    CASE key = "Return" -> <<CR>>
      [] key = "Up" -> <<ESC, LBRACKET, 65>>
      [] key = "Ctrl+C" -> <<3>>
      [] OTHER -> <<97>>

\* the members after keyPressEvent
keyPressEvent(t, key) ==
    IF key = "Ctrl+C" THEN [t EXCEPT !.m_pendingNewline = FALSE] ELSE t

\* A key event.  Without a descriptor keyPressEvent returns; otherwise it
\* calls write() once and ignores the result: the bytes are delivered, or
\* the call fails with EAGAIN (the child is not reading), or with EIO (the
\* child has exited).
KeyPress ==
    /\ ~crashed /\ ~pty.destroyed
    /\ pty.keys < MaxKeys
    /\ prev' = Self
    /\ \E key \in Keys :
        IF m_masterFd < 0
        THEN /\ last' = [kind |-> "key", data |-> <<>>, key |-> key, result |-> "skipped"]
             /\ pty' = [pty EXCEPT !.keys = @ + 1]
             /\ UNCHANGED <<members, crashed>>
        ELSE /\ Finish(keyPressEvent(Self, key))
             /\ \E result \in (IF pty.child = "exited" THEN {"error"}
                                ELSE {"written", "wouldblock"}) :
                  /\ pty' = [pty EXCEPT
                        !.keys = @ + 1,
                        !.typed = @ \o KeyBytes(key),
                        !.io = TRUE,
                        !.written = IF result = "written" THEN @ \o KeyBytes(key) ELSE @,
                        !.errored = @ \/ result = "error",
                        !.ioAfterError = @ \/ pty.errored]
                  /\ last' = [kind |-> "key", data |-> KeyBytes(key), key |-> key,
                              result |-> result]
    /\ UNCHANGED <<m_childPid, m_masterFd, fed, nRead, nResize>>

\* the destructor without the test of m_childPid
teardown_NoPidTest(p, childPid, masterFd, survives) ==
    [p EXCEPT
        !.destroyed = TRUE,
        !.signalled = TRUE,
        !.child = IF @ = "running" /\ ~survives THEN "exited" ELSE @,
        !.open = IF masterFd >= 0 THEN FALSE ELSE @]

\* ~TerminalWidget: SIGTERM to the child when there is one, close() of the
\* master when there is one; no wait and no second signal.  A child that is
\* running dies of SIGTERM or of the hangup the close raises, unless it
\* ignores both (survives).
teardown(p, childPid, masterFd, survives) ==
    [p EXCEPT
        !.destroyed = TRUE,
        !.signalled = childPid > 0,
        !.child = IF childPid > 0 /\ @ = "running" /\ ~survives THEN "exited" ELSE @,
        !.open = IF masterFd >= 0 THEN FALSE ELSE @]

Destroy ==
    /\ ~crashed /\ ~pty.destroyed
    /\ \E survives \in BOOLEAN :
          /\ pty' = teardown(pty, m_childPid, m_masterFd, survives)
          /\ last' = [kind |-> "destroy", data |-> <<>>, survives |-> survives]
    /\ prev' = Self
    /\ UNCHANGED <<members, m_childPid, m_masterFd, crashed, fed, nRead, nResize>>

NextPty == ChildWrites \/ ChildExits \/ PollTick \/ KeyPress \/ Destroy

SpecPty == Init /\ [][NextPty]_vars

(***************************************************************************)
(* SpecPoll: the session stays open (no destructor) and the read timer      *)
(* keeps firing: started with an interval of 10 ms, it is never stopped,    *)
(* so a tick that can happen does happen.                                   *)
(***************************************************************************)
NextPoll == ChildWrites \/ ChildExits \/ PollTick

SpecPoll == Init /\ [][NextPoll]_vars /\ WF_vars(PollTick)

(***************************************************************************)
(* SpecSession: a session from its start, with or without a shell, while    *)
(* the shell is silent: poll ticks, key events, resize events and the       *)
(* destructor.                                                              *)
(***************************************************************************)
NextSession == PollTick \/ KeyPress \/ ResizeEvent \/ Destroy

SpecSession == Init /\ [][NextSession]_vars

(***************************************************************************)
(* SpecGlyph: the child writes narrow and wide characters, control          *)
(* characters, attribute changes, a cursor move, an erase and an OSC        *)
(* sequence, while the window is resized, the cursor blinks and keys are    *)
(* pressed.                                                                 *)
(***************************************************************************)
\* U+4E2D, a wide character (E4 B8 AD)
WideChar == <<228, 184, 173>>

\* ESC ] 0 ; a BEL
OscTitle == <<ESC, RBRACKET, 48, SEMI, 97, BEL>>

SgrChunks == { SgrCommand(<<1, 31>>), SgrCommand(<<0>>) }

GlyphChunks ==
    { <<97>>, WideChar, <<LF>>, <<TAB>>, <<BS>>, OscTitle,
      CsiCommand(<<>>, 72), CsiCommand(Decimal(2), 74) } \cup SgrChunks

ReadGlyph == \E data \in GlyphChunks : Read(data, 1, MaxSequences, FALSE)

\* reads, resizes and key events share one budget
GlyphBudget == nRead + nResize + pty.keys < MaxSequences

NextGlyph ==
    \/ GlyphBudget /\ ReadGlyph
    \/ GlyphBudget /\ ResizeEvent
    \/ GlyphBudget /\ KeyPress
    \/ BlinkTick

SpecGlyph == Init /\ [][NextGlyph]_vars

(***************************************************************************)
(* SpecTab: on a grid wide enough for a tab stop, the child writes letters, *)
(* tabs, backspaces, line feeds, and runs of letters that end right before  *)
(* the tab stop and right before the end of the row.                        *)
(***************************************************************************)
TabChunks == { <<97>>, <<TAB>>, <<BS>>, <<LF>>, <<LF, 97>>, Run(7), Run(TabCols - 1) }

ReadTab == \E data \in TabChunks : Read(data, 1, MaxSequences, FALSE)

NextTab == ReadTab

InitTab == InitAs(InitRows, TabCols)

SpecTab == InitTab /\ [][NextTab]_vars

(***************************************************************************)
(* SpecCsi: the child writes text, an attribute change, a cursor move, a    *)
(* save, a hide and CSI sequences whose final byte has no case in           *)
(* processEscapeSequence or an empty one (r, n), while keys are pressed.    *)
(***************************************************************************)
\* (none)   6   1;2   ?6
NoOpTexts == { <<>>, <<54>>, <<49, SEMI, 50>>, <<QUESTION, 54>> }

\* r  n  and bytes without a case: z  ~  LF  ESC
NoOpFinals == {114, 110, 122, 126, LF, ESC}

CsiChunks ==
    { <<97>>, SgrCommand(<<1, 31>>), CsiCommand(JoinParams(<<2, 2>>), 72),
      CsiCommand(<<>>, 115), CsiCommand(<<QUESTION, 50, 53>>, 108) } \cup
    {CsiCommand(text, final) : text \in NoOpTexts, final \in NoOpFinals}

\* reads and key events share one budget
CsiBudget == nRead + pty.keys < MaxSequences

ReadCsi == CsiBudget /\ \E data \in CsiChunks : Read(data, 1, MaxSequences, FALSE)

KeyDuringCsi == CsiBudget /\ KeyPress

NextCsi == ReadCsi \/ KeyDuringCsi

SpecCsi == Init /\ [][NextCsi]_vars

(***************************************************************************)
(* SpecBlink: the child writes text and hides and shows the cursor, while   *)
(* the cursor blinks, keys are pressed and the window is resized.           *)
(***************************************************************************)
\* ESC [ ? 25 l
HideCursor == CsiCommand(<<QUESTION, 50, 53>>, 108)

\* ESC [ ? 25 h
ShowCursor == CsiCommand(<<QUESTION, 50, 53>>, 104)

BlinkChunks == { <<97>>, <<LF>>, HideCursor, ShowCursor }

\* reads, key events and resizes share one budget
BlinkBudget == nRead + nResize + pty.keys < MaxSequences

ReadBlink == BlinkBudget /\ \E data \in BlinkChunks : Read(data, 1, MaxSequences, FALSE)

KeyDuringBlink == BlinkBudget /\ KeyPress

ResizeDuringBlink == BlinkBudget /\ ResizeEvent

NextBlink == ReadBlink \/ KeyDuringBlink \/ ResizeDuringBlink \/ BlinkTick

SpecBlink == Init /\ [][NextBlink]_vars

(***************************************************************************)
(* Properties.                                                              *)
(***************************************************************************)
\* the latest event was a read() that returned the single byte c
LastByte(c) == last.kind = "read" /\ last.data = <<c>>
LastIsOneByte == last.kind = "read" /\ Len(last.data) = 1

\* what the renderer and later writes see: grid, cursor, visibility, attributes
Screen(t) ==
    <<t.m_buffer, t.m_cursorX, t.m_cursorY, t.m_cursorVisible,
      t.m_currentFg, t.m_currentBg, t.m_bold, t.m_italic, t.m_underline>>

\* C1: after any PTY output interleaved with resize events the cursor is
\* inside the grid: 0 <= row < rows and 0 <= col < cols.
CursorInGrid ==
    ~crashed => (m_cursorY \in 0..(m_rows - 1) /\ m_cursorX \in 0..(m_cols - 1))

\* C2: the grid is rectangular with rows >= 1 and cols >= 1: it holds exactly
\* m_rows rows of exactly m_cols cells each, whatever was written, scrolled,
\* erased or resized, also when a resize asks for a size that computes to 0.
GridRectangular ==
    /\ m_rows >= 1
    /\ m_cols >= 1
    /\ DOMAIN m_buffer = 0..(m_rows - 1)
    /\ \A y \in DOMAIN m_buffer : DOMAIN m_buffer[y] = 0..(m_cols - 1)

\* a resize whose computed size is 0 x 0 shrank a grid that holds text
GridRectangularWitness ==
    /\ last.kind = "resize"
    /\ last.data = <<0, 0>>
    /\ prev.m_rows > 1 /\ prev.m_cols > 1
    /\ m_rows = 1 /\ m_cols = 1
    /\ m_buffer[0][0].character = 97

\* C3: every line feed processed in Ground state advances the cursor exactly
\* one row, scrolling once instead on the last row, and sets the column to 0.
LineFeedAdvances ==
    (LastByte(LF) /\ prev.m_escapeState = "None" /\ ~crashed) =>
        /\ m_cursorX = 0
        /\ IF prev.m_cursorY = prev.m_rows - 1
           THEN m_cursorY = prev.m_cursorY /\ m_buffer = scrollUp(prev).m_buffer
           ELSE m_cursorY = prev.m_cursorY + 1 /\ m_buffer = prev.m_buffer

\* C4: from the ESC ] that opens an OSC sequence until the parser is back in
\* Ground, no byte changes a grid cell, the cursor, the visibility flag or a
\* text attribute.
OscNoSideEffect ==
    (/\ LastIsOneByte
     /\ ~crashed
     /\ \/ prev.m_escapeState \in {"OSC", "OSCParameter"}
        \/ (prev.m_escapeState = "Escape" /\ last.data = <<RBRACKET>>))
    => Screen(Self) = Screen(prev)

\* the byte c, arriving in decoder state t, is handed to processChar
ReachesParser(t, c) ==
    /\ ~(t.m_utf8Remaining > 0 /\ IsContinuation(c))
    /\ ~(c >= 128 /\ LeadRemaining(c) > 0)

\* the byte c is the last continuation byte of the pending sequence
CompletesSequence(t, c) == t.m_utf8Remaining = 1 /\ IsContinuation(c)

CsiFinalByteDispatches ==
    (/\ LastIsOneByte
     /\ prev.m_escapeState \in {"Bracket", "Parameter"}
     /\ \/ /\ ReachesParser(prev, last.data[1])
           /\ IF prev.m_escapeState = "Bracket"
              THEN ~IsParamStart(last.data[1]) ELSE ~IsParamCont(last.data[1])
        \/ CompletesSequence(prev, last.data[1])
     /\ ~crashed)
    => /\ m_escapeState = "None"
       /\ \A y \in DOMAIN m_buffer : \A x \in DOMAIN m_buffer[y] :
            m_buffer[y][x] \in {prev.m_buffer[y][x], TermChar}

\* C7: however the byte stream was cut into read chunks, the widget is in the
\* state that processing the whole stream as one chunk gives: grid, cursor,
\* attributes, parser state and decoder state.
ChunkingInvariance ==
    ~crashed => Self = [processOutput(Constructed, fed) EXCEPT !.oob = FALSE]

\* a read boundary fell inside the two-byte sequence of U+00E9, which was
\* written once the second chunk arrived
ChunkingWitness ==
    /\ last.kind = "read"
    /\ prev.m_utf8Remaining = 1
    /\ m_utf8Remaining = 0
    /\ Len(fed) > Len(last.data)
    /\ InGrid(prev, prev.m_cursorY, prev.m_cursorX)
    /\ m_buffer[prev.m_cursorY][prev.m_cursorX].character = 233

\* data is a lead byte followed by exactly the continuation bytes it announces
IsUtf8Sequence(data) ==
    /\ Len(data) >= 2
    /\ data[1] >= 128
    /\ LeadRemaining(data[1]) = Len(data) - 1
    /\ \A i \in 2..Len(data) : IsContinuation(data[i])
    /\ Utf8WellFormed(data)

\* C8: a complete 2-, 3- or 4-byte sequence writes one glyph cell at the
\* cursor, and that cell carries the full Unicode scalar of the sequence.
MultiByteWritesScalar ==
    (/\ last.kind = "read"
     /\ IsUtf8Sequence(last.data)
     /\ prev.m_utf8Remaining = 0
     /\ InGrid(prev, prev.m_cursorY, prev.m_cursorX)
     /\ prev.m_cursorY < prev.m_rows - 1
     /\ ~crashed)
    => /\ m_buffer[prev.m_cursorY][prev.m_cursorX] = AttrCell(prev, Utf8Scalar(last.data))
       /\ \A y \in DOMAIN m_buffer : \A x \in DOMAIN m_buffer[y] :
            <<y, x>> # <<prev.m_cursorY, prev.m_cursorX>> =>
                m_buffer[y][x].character \in {prev.m_buffer[y][x].character, SPACE}

\* C9: a byte that is no continuation byte, arriving while a sequence is
\* pending, discards the buffered bytes without writing a cell and is then
\* processed as if nothing had been pending: a lead byte opens a new
\* sequence, any other byte goes to the parser.
PendingAbortReprocesses ==
    (/\ LastIsOneByte
     /\ prev.m_utf8Remaining > 0
     /\ ~IsContinuation(last.data[1])
     /\ ~crashed)
    => LET c == last.data[1]
           cleared == [prev EXCEPT !.m_utf8Remaining = 0, !.m_utf8Buffer = <<>>]
       IN IF LeadRemaining(c) > 0
          THEN Self = [cleared EXCEPT !.m_utf8Remaining = LeadRemaining(c),
                                      !.m_utf8Buffer = <<c>>]
          ELSE Self = processChar(cleared, c)

\* an `a` arrived in Ground while a sequence was pending, and was written
PendingAbortWitness ==
    /\ LastByte(97)
    /\ prev.m_utf8Remaining > 0
    /\ prev.m_escapeState = "None"
    /\ m_utf8Remaining = 0
    /\ m_buffer[prev.m_cursorY][prev.m_cursorX].character = 97

\* well-formed sequences of two, three and four bytes
ValidSequences == {<<195, 169>>, <<228, 184, 173>>, <<240, 159, 152, 128>>}

\* C10: a continuation byte arriving while nothing is pending leaves nothing
\* pending, and a valid multi-byte sequence that follows is written exactly as
\* it would have been without the stray byte.
StrayContinuationHarmless ==
    (/\ LastIsOneByte
     /\ IsContinuation(last.data[1])
     /\ prev.m_utf8Remaining = 0
     /\ ~crashed)
    => /\ m_utf8Remaining = 0
       /\ m_utf8Buffer = <<>>
       /\ \A seq \in ValidSequences :
            Screen(processOutput(Self, seq)) = Screen(processOutput(prev, seq))

\* the stray byte A9 arrived in Ground, and C3 A9 after it still gives U+00E9
StrayContinuationWitness ==
    /\ LastByte(169)
    /\ prev.m_utf8Remaining = 0
    /\ prev.m_escapeState = "None"
    /\ processOutput(Self, <<195, 169>>).m_buffer[prev.m_cursorY][prev.m_cursorX].character
            = 233

\* the cursor after a write that advanced it by n columns from (x, y), with
\* the wrap at the end of the row
Advanced(t, n) ==
    IF t.m_cursorX + n < t.m_cols THEN <<t.m_cursorX + n, t.m_cursorY>>
    ELSE <<0, Min(t.m_cursorY + 1, t.m_rows - 1)>>

\* C11: a decoded scalar in one of the wide ranges (U+3000-U+9FFF,
\* U+AC00-U+D7AF, U+F900-U+FAFF, U+FF00-U+FFEF, U+20000-U+2FFFF), written
\* where the row has two cells left, occupies the cursor cell, puts a blank
\* placeholder glyph in the next cell and advances the cursor by two columns;
\* a scalar outside those ranges advances the cursor by one.
WideOccupiesTwo ==
    (/\ last.kind = "read"
     /\ IsUtf8Sequence(last.data)
     /\ prev.m_utf8Remaining = 0
     /\ InGrid(prev, prev.m_cursorY, prev.m_cursorX)
     /\ ~crashed)
    => LET x == prev.m_cursorX
           y == prev.m_cursorY
       IN IF IsWide(Utf8Scalar(last.data)) THEN
            (x + 2 <= prev.m_cols) =>
                /\ <<m_cursorX, m_cursorY>> = Advanced(prev, 2)
                /\ (y < prev.m_rows - 1) =>
                        /\ m_buffer[y][x] = AttrCell(prev, FromUtf8(last.data)[1])
                        /\ m_buffer[y][x + 1].character = SPACE
          ELSE <<m_cursorX, m_cursorY>> = Advanced(prev, 1)

\* data is a run of printable ASCII characters
IsPrintableRun(data) ==
    data # <<>> /\ \A i \in 1..Len(data) : data[i] >= 32 /\ data[i] <= 126

\* a run of printable characters arrived in Ground with the cursor at column
\* 0 of a row of the grid
RunFromColumnZero ==
    /\ last.kind = "read"
    /\ IsPrintableRun(last.data)
    /\ prev.m_escapeState = "None"
    /\ prev.m_cursorX = 0
    /\ prev.m_cursorY \in 0..(prev.m_rows - 1)
    /\ ~crashed

\* the grid of t with data written along row r from column 0
RowWritten(t, r, data) ==
    [y \in DOMAIN t.m_buffer |->
        [x \in DOMAIN t.m_buffer[y] |->
            IF y = r /\ x < Len(data)
            THEN [t.m_buffer[y][x] EXCEPT !.character = data[x + 1]]
            ELSE t.m_buffer[y][x]]]

\* C12: n printable ASCII characters with n < cols, written in Ground from
\* column 0 of row r, leave the cursor at (r, n) and the characters in cells
\* (r,0)..(r,n-1) in order; no other cell of the grid changes.
PrintableRunWritten ==
    (RunFromColumnZero /\ Len(last.data) < prev.m_cols)
    => LET r == prev.m_cursorY IN
       /\ m_cursorY = r
       /\ m_cursorX = Len(last.data)
       /\ \A x \in 0..(Len(last.data) - 1) : m_buffer[r][x].character = last.data[x + 1]
       /\ \A y \in DOMAIN m_buffer : \A x \in DOMAIN m_buffer[y] :
            (y # r \/ x >= Len(last.data)) => m_buffer[y][x] = prev.m_buffer[y][x]

\* `ab` was written on the second row while the first row held text
PrintableRunWitness ==
    /\ RunFromColumnZero
    /\ last.data = <<97, 98>>
    /\ prev.m_cursorY = 1
    /\ prev.m_buffer[0][0].character # SPACE
    /\ m_cursorX = 2 /\ m_cursorY = 1
    /\ m_buffer[1][0].character = 97 /\ m_buffer[1][1].character = 98

\* C13 as claimed: exactly cols printable characters written from column 0
\* of row `row` leave the cursor at (row+1, 0).
FullRowWrapsToNextRow ==
    (RunFromColumnZero /\ Len(last.data) = prev.m_cols)
    => (m_cursorX = 0 /\ m_cursorY = prev.m_cursorY + 1)

\* C13 as amended: exactly cols printable characters written from column 0
\* of row `row` wrap exactly once, as soon as the last column is filled: the
\* cursor ends at (row+1, 0) with the row holding the characters, or, when
\* `row` is the last row, the grid scrolls up once and the cursor ends at
\* (row, 0).
FullRowWrapsOnce ==
    (RunFromColumnZero /\ Len(last.data) = prev.m_cols)
    => LET r == prev.m_cursorY
           written == RowWritten(prev, r, last.data)
       IN /\ m_cursorX = 0
          /\ \A y \in DOMAIN m_buffer : \A x \in DOMAIN m_buffer[y] :
                m_buffer[y][x].character =
                    (IF r < prev.m_rows - 1 THEN written
                     ELSE scrollUp([prev EXCEPT !.m_buffer = written]).m_buffer)[y][x].character
          /\ IF r < prev.m_rows - 1 THEN m_cursorY = r + 1 ELSE m_cursorY = r

\* a full row was written on the last row: the grid scrolled and the cursor
\* stayed on the last row
FullRowWitness ==
    /\ RunFromColumnZero
    /\ Len(last.data) = prev.m_cols
    /\ prev.m_cursorY = prev.m_rows - 1
    /\ prev.m_rows > 1
    /\ m_cursorX = 0 /\ m_cursorY = prev.m_cursorY
    /\ m_buffer[prev.m_cursorY - 1][0].character = 97

\* the latest event was a line feed that scrolled: it arrived in Ground on
\* the last row with no line feed held back
LineFeedScrolled ==
    /\ LastByte(LF)
    /\ prev.m_escapeState = "None"
    /\ ~prev.m_pendingNewline
    /\ prev.m_cursorY = prev.m_rows - 1
    /\ ~crashed

\* C14: a scroll-up keeps the row count, makes new row i the old row i+1 for
\* every i < rows-1 and makes the last row all default cells; only the old
\* row 0 is lost, and an all-default grid stays all-default.
ScrollUpShifts ==
    LineFeedScrolled =>
        /\ m_rows = prev.m_rows
        /\ DOMAIN m_buffer = 0..(prev.m_rows - 1)
        /\ \A i \in 0..(prev.m_rows - 2) : m_buffer[i] = prev.m_buffer[i + 1]
        /\ m_buffer[prev.m_rows - 1] = BlankRow(prev.m_cols)
        /\ (prev.m_buffer = BlankBuffer(prev.m_rows, prev.m_cols))
                => (m_buffer = BlankBuffer(prev.m_rows, prev.m_cols))

\* a scroll moved the text of the last row up and left a blank last row
ScrollUpWitness ==
    /\ LineFeedScrolled
    /\ prev.m_rows > 1
    /\ prev.m_buffer[prev.m_rows - 1][0].character = 97
    /\ m_buffer[prev.m_rows - 2][0].character = 97
    /\ m_buffer[prev.m_rows - 1] = BlankRow(prev.m_cols)

\* C19: carriage return then line feed, fed in Ground with the cursor at
\* (r, c) on a row r < rows-1, move the cursor to (r+1, 0) and change no cell,
\* whatever output preceded them.
CrLfMovesToNextLine ==
    (/\ last.kind = "read"
     /\ last.data = <<CR, LF>>
     /\ prev.m_escapeState = "None"
     /\ prev.m_cursorY \in 0..(prev.m_rows - 2)
     /\ ~crashed)
    => /\ m_cursorX = 0
       /\ m_cursorY = prev.m_cursorY + 1
       /\ m_buffer = prev.m_buffer

\* CR LF arrived right after a line feed and a cursor homing, with the line
\* feed's m_pendingNewline still set, and moved the cursor down
CrLfWitness ==
    /\ last.kind = "read"
    /\ last.data = <<CR, LF>>
    /\ prev.m_escapeState = "None"
    /\ prev.m_pendingNewline
    /\ prev.m_cursorY = 0
    /\ m_cursorX = 0 /\ m_cursorY = 1

\* the text attributes of t
Attributes(t) == <<t.m_currentFg, t.m_currentBg, t.m_bold, t.m_italic, t.m_underline>>

\* the latest event was the SGR command with parameter list ps, read in Ground
LastSgr(ps) ==
    /\ last.kind = "read"
    /\ last.data = SgrCommand(ps)
    /\ prev.m_escapeState = "None"
    /\ ~crashed

\* C15: whatever bold/italic/underline setters and clearers (and colours)
\* came before, from whatever attribute state, an SGR command ending in 0
\* leaves foreground and background at the defaults and bold, italic and
\* underline false.
SgrRoundTrip ==
    \A ps \in SgrParams :
        (LastSgr(ps) /\ (ps = <<>> \/ ps[Len(ps)] = 0))
        => Attributes(Self) = Attributes(Constructed)

\* SGR 0 arrived with bold, italic, underline and both colours set
SgrRoundTripWitness ==
    /\ LastSgr(<<0>>)
    /\ prev.m_bold /\ prev.m_italic /\ prev.m_underline
    /\ prev.m_currentFg # DefaultFg /\ prev.m_currentBg # DefaultBg
    /\ Attributes(Self) = Attributes(Constructed)

\* ps selects a palette entry: 38;5;N or 48;5;N
IsIndexedSelector(ps) == Len(ps) = 3 /\ ps[1] \in {38, 48} /\ ps[2] = 5

\* ps selects a direct colour: 38;2;R;G;B or 48;2;R;G;B
IsDirectSelector(ps) == Len(ps) = 5 /\ ps[1] \in {38, 48} /\ ps[2] = 2

\* ps is a 38 or 48 selector cut short
IsTruncatedSelector(ps) ==
    /\ ps # <<>>
    /\ ps[1] \in {38, 48}
    /\ \/ Len(ps) = 1
       \/ (ps[2] = 5 /\ Len(ps) = 2)
       \/ (ps[2] = 2 /\ Len(ps) \in 2..4)

\* the attributes of t with the foreground (38) or background (48) replaced
WithColour(t, which, colour) ==
    IF which = 38
    THEN <<colour, t.m_currentBg, t.m_bold, t.m_italic, t.m_underline>>
    ELSE <<t.m_currentFg, colour, t.m_bold, t.m_italic, t.m_underline>>

\* C16: within one SGR command, 38;5;N / 48;5;N with 0 <= N <= 255 set the
\* foreground / background to palette entry N and 38;2;R;G;B / 48;2;R;G;B to
\* the direct colour (R,G,B); the sub-parameters are consumed with the
\* selector and never read as SGR codes of their own; an unrecognized code,
\* an out-of-range N or a truncated 38/48 selector changes no attribute.
SgrExtendedColour ==
    \A ps \in SgrParams :
        LastSgr(ps) =>
            IF IsIndexedSelector(ps) THEN
                IF ps[3] \in 0..255
                THEN Attributes(Self) = WithColour(prev, ps[1], ColorPalette(ps[3]))
                ELSE Attributes(Self) = Attributes(prev)
            ELSE IF IsDirectSelector(ps) THEN
                Attributes(Self) = WithColour(prev, ps[1], <<ps[3], ps[4], ps[5]>>)
            ELSE (IsTruncatedSelector(ps) \/ ps = <<5>>) =>
                Attributes(Self) = Attributes(prev)

\* the coordinates (r, g, b) of the 6x6x6 colour cube
CubeIndices == {<<r, g, b>> : r \in 0..5, g \in 0..5, b \in 0..5}

\* C17: the colour resolver is total on 0..255: indices 0-15 give the fixed
\* palette, index 16+36r+6g+b gives (f(r),f(g),f(b)) with f(0) = 0 and
\* f(n) = 55+40n, index 232+n gives (8+10n, 8+10n, 8+10n); so 16 is (0,0,0),
\* 231 (255,255,255), 232 (8,8,8), 255 (238,238,238), every component lies in
\* 0..255, and an SGR 38;5;N command sets the foreground to that colour.
PaletteResolver ==
    /\ DOMAIN initializeColorPalette = 1..256
    /\ \A index \in 0..15 : ColorPalette(index) = BasicPalette[index + 1]
    /\ \A c \in CubeIndices :
            ColorPalette(16 + 36 * c[1] + 6 * c[2] + c[3]) =
                [i \in 1..3 |-> IF c[i] = 0 THEN 0 ELSE 55 + 40 * c[i]]
    /\ \A n \in 0..23 : ColorPalette(232 + n) = <<8 + 10 * n, 8 + 10 * n, 8 + 10 * n>>
    /\ ColorPalette(16) = <<0, 0, 0>>
    /\ ColorPalette(231) = <<255, 255, 255>>
    /\ ColorPalette(232) = <<8, 8, 8>>
    /\ ColorPalette(255) = <<238, 238, 238>>
    /\ \A index \in 0..255 : \A i \in 1..3 : ColorPalette(index)[i] \in 0..255
    /\ \A ps \in SgrParams :
            (LastSgr(ps) /\ IsIndexedSelector(ps) /\ ps[1] = 38 /\ ps[3] \in 0..255) =>
                m_currentFg =
                    (IF ps[3] = 16 THEN <<0, 0, 0>>
                     ELSE IF ps[3] = 231 THEN <<255, 255, 255>>
                     ELSE IF ps[3] = 232 THEN <<8, 8, 8>>
                     ELSE IF ps[3] = 255 THEN <<238, 238, 238>>
                     ELSE ColorPalette(ps[3]))

\* SGR 38;5;231 arrived and the foreground is white
PaletteResolverWitness ==
    /\ LastSgr(<<38, 5, 231>>)
    /\ prev.m_currentFg # <<255, 255, 255>>
    /\ m_currentFg = <<255, 255, 255>>

\* C18: attributes apply only to the cells written while they are in force:
\* for every colour code 30+k, feeding X, ESC [ 3k m, Y, ESC [ 0 m, Z into a
\* fresh buffer gives cell (0,0) = X with default colours, cell (0,1) = Y
\* with foreground palette entry k, cell (0,2) = Z with default colours, and
\* the cursor at (0,3).
AttributesScoped ==
    \A X \in Letters, k \in 0..7, Y \in Letters, Z \in Letters :
        (/\ last.kind = "read"
         /\ last.data = Scenario(X, k, Y, Z)
         /\ prev = ConstructedAs(InitRows, WideCols)
         /\ ~crashed)
        => /\ m_buffer[0][0] = [TermChar EXCEPT !.character = X]
           /\ m_buffer[0][1] = [TermChar EXCEPT !.character = Y,
                                                !.foreground = BasicPalette[k + 1]]
           /\ m_buffer[0][2] = [TermChar EXCEPT !.character = Z]
           /\ m_cursorY = 0
           /\ m_cursorX = 3

\* A, ESC [ 31 m, B, ESC [ 0 m, A was fed into the fresh buffer: the B is red
AttributesScopedWitness ==
    /\ last.kind = "read"
    /\ last.data = Scenario(65, 1, 66, 65)
    /\ prev = ConstructedAs(InitRows, WideCols)
    /\ m_buffer[0][1].character = 66
    /\ m_buffer[0][1].foreground = <<204, 36, 29>>
    /\ m_cursorX = 3

\* the latest event was a resize that changed the size of the grid
Resized ==
    /\ last.kind = "resize"
    /\ <<m_rows, m_cols>> # <<prev.m_rows, prev.m_cols>>
    /\ ~crashed

\* C20: a resize to (rows', cols') gives a grid of exactly those dimensions
\* whose cell (r,c) is the old cell (r,c) for r < min(rows, rows') and
\* c < min(cols, cols') and a default cell elsewhere; the cursor becomes
\* (min(row, rows'-1), min(col, cols'-1)); text attributes, parser state and
\* decoder state are unchanged.
ResizeKeepsOverlap ==
    Resized =>
        LET newCols == Max(1, last.data[1] \div CharWidth)
            newRows == Max(1, last.data[2] \div CharHeight)
        IN /\ m_rows = newRows /\ m_cols = newCols
           /\ DOMAIN m_buffer = 0..(newRows - 1)
           /\ \A r \in 0..(newRows - 1) :
                /\ DOMAIN m_buffer[r] = 0..(newCols - 1)
                /\ \A c \in 0..(newCols - 1) :
                     m_buffer[r][c] =
                        IF r < prev.m_rows /\ c < prev.m_cols
                        THEN prev.m_buffer[r][c] ELSE TermChar
           /\ m_cursorY = Min(prev.m_cursorY, newRows - 1)
           /\ m_cursorX = Min(prev.m_cursorX, newCols - 1)
           /\ Attributes(Self) = Attributes(prev)
           /\ <<m_escapeState, m_escapeSequence>> =
                    <<prev.m_escapeState, prev.m_escapeSequence>>
           /\ <<m_utf8Remaining, m_utf8Buffer>> =
                    <<prev.m_utf8Remaining, prev.m_utf8Buffer>>

\* a resize in the middle of an escape sequence took away the cursor's row:
\* the text in the overlap stayed, the cursor was brought inside and the
\* parser is still in the sequence
ResizeWitness ==
    /\ Resized
    /\ m_rows < prev.m_rows
    /\ prev.m_cursorY > m_rows - 1
    /\ m_cursorY = m_rows - 1
    /\ prev.m_buffer[0][0].character = 97
    /\ m_buffer[0][0].character = 97
    /\ prev.m_escapeState = "Bracket"
    /\ m_escapeState = "Bracket"

\* this step is a resize back to the column count of prev, taken right after
\* a resize that shrank the columns and kept the rows
GrowsBackAfterShrink ==
    /\ last.kind = "resize"
    /\ m_cols < prev.m_cols
    /\ m_rows = prev.m_rows
    /\ ~crashed
    /\ nResize' = nResize + 1
    /\ ~crashed'
    /\ m_cols' = prev.m_cols
    /\ m_rows' = m_rows

\* C21: shrinking the column count from c to c' < c and growing it back to
\* c, with no output in between, preserves columns 0..c'-1 of every row
\* exactly and leaves columns c'..c-1 of every row as default cells.
ShrinkGrowPreserves ==
    [][GrowsBackAfterShrink =>
        /\ DOMAIN m_buffer' = DOMAIN prev.m_buffer
        /\ \A y \in DOMAIN prev.m_buffer :
            /\ DOMAIN m_buffer'[y] = DOMAIN prev.m_buffer[y]
            /\ \A x \in DOMAIN prev.m_buffer[y] :
                    m_buffer'[y][x] = IF x < m_cols THEN prev.m_buffer[y][x] ELSE TermChar]_vars

\* two resizes in a row, down to two columns and back to three, after three
\* reads that filled the first row and wrapped (no line feed is held back):
\* the third column is blank again
ShrinkGrowWitness ==
    /\ last.kind = "resize"
    /\ last.after = "resize"
    /\ nResize = 2
    /\ nRead = 3
    /\ prev.m_cols = 2 /\ m_cols = 3
    /\ prev.m_rows = m_rows
    /\ m_buffer[0][0].character = 97
    /\ m_buffer[0][1].character = 97
    /\ m_buffer[0][2] = TermChar
    /\ m_cursorY = 1
    /\ ~m_pendingNewline

\* the latest event was ESC [ text final, read in Ground
LastCsi(text, final) ==
    /\ last.kind = "read"
    /\ last.data = CsiCommand(text, final)
    /\ prev.m_escapeState = "None"
    /\ ~crashed

\* the 1-based parameter p as an index clamped to 0..size-1
Clamped(p, size) == Max(0, Min(size - 1, p - 1))

\* C22: CUP (H / f) with parameters p1;p2 sets the cursor to row
\* clamp(p1-1, 0, rows-1) and column clamp(p2-1, 0, cols-1), so that 0 and 1
\* both address the first row / column and oversized values the last; G does
\* the same for the column alone and d for the row alone; the other
\* coordinate and all cells are unchanged.
AbsoluteMovesClamp ==
    /\ \A ps \in CupPairs, final \in {72, 102} :
            LastCsi(ps[1] \o <<SEMI>> \o ps[2], final) =>
                /\ m_cursorY = Clamped(Denoted(ps[1]), prev.m_rows)
                /\ m_cursorX = Clamped(Denoted(ps[2]), prev.m_cols)
                /\ m_buffer = prev.m_buffer
    /\ \A n \in CupSingles :
            /\ LastCsi(n, 71) =>
                    /\ m_cursorX = Clamped(Denoted(n), prev.m_cols)
                    /\ m_cursorY = prev.m_cursorY
                    /\ m_buffer = prev.m_buffer
            /\ LastCsi(n, 100) =>
                    /\ m_cursorY = Clamped(Denoted(n), prev.m_rows)
                    /\ m_cursorX = prev.m_cursorX
                    /\ m_buffer = prev.m_buffer

\* C23: CUP (H / f) with fewer than two parameters takes 1 for each missing
\* one: with no parameter it moves to (0,0), with the single row parameter n
\* to row clamp(n-1, 0, rows-1), column 0.
CupDefaultsMissing ==
    \A final \in {72, 102} :
        /\ LastCsi(<<>>, final) => (m_cursorY = 0 /\ m_cursorX = 0)
        /\ LastCsi(Decimal(2), final) =>
                (m_cursorY = Clamped(2, prev.m_rows) /\ m_cursorX = 0)

\* the step the parameter text asks for: max(1, n), 1 when n is not a number
ClaimedStep(text) ==
    IF text # <<>> /\ (\A i \in 1..Len(text) : IsDigit(text[i]))
    THEN Max(1, Denoted(text)) ELSE 1

\* from position at, step cells towards 0 / towards size - 1, stopping there
TowardsZero(at, step) == IF step >= at THEN 0 ELSE at - step
TowardsEnd(at, step, size) == IF step >= size - 1 - at THEN size - 1 ELSE at + step

\* C24: A / B / C / D with parameter n move the cursor by max(1, n) cells up /
\* down / forward / back (an omitted, empty, non-numeric or 0 parameter moves
\* by 1), stop at the grid edge without wrapping or scrolling, leave the other
\* coordinate unchanged and change no cell.
RelativeMovesClamp ==
    \A text \in MoveTexts, final \in {65, 66, 67, 68} :
        (/\ last.kind = "read" /\ last.data = CsiCommand(text, final)
         /\ prev.m_escapeState = "None"
         /\ prev.m_cursorY \in 0..(prev.m_rows - 1)
         /\ prev.m_cursorX \in 0..(prev.m_cols - 1)) =>
            /\ ~crashed
            /\ m_buffer = prev.m_buffer
            /\ m_cursorY =
                  CASE final = 65 -> TowardsZero(prev.m_cursorY, ClaimedStep(text))
                    [] final = 66 -> TowardsEnd(prev.m_cursorY, ClaimedStep(text), prev.m_rows)
                    [] OTHER -> prev.m_cursorY
            /\ m_cursorX =
                  CASE final = 68 -> TowardsZero(prev.m_cursorX, ClaimedStep(text))
                    [] final = 67 -> TowardsEnd(prev.m_cursorX, ClaimedStep(text), prev.m_cols)
                    [] OTHER -> prev.m_cursorX

\* the cells the claim has ESC [ n J / ESC [ n K erase with the cursor at (cy, cx)
Addressed(final, n, cy, cx, y, x) ==
    IF final = 74
    THEN CASE n = 0 -> y > cy \/ (y = cy /\ x >= cx)
           [] n = 1 -> y < cy \/ (y = cy /\ x <= cx)
           [] n \in {2, 3} -> TRUE
           [] OTHER -> FALSE
    ELSE CASE n = 0 -> y = cy /\ x >= cx
           [] n = 1 -> y = cy /\ x <= cx
           [] n = 2 -> y = cy
           [] OTHER -> FALSE

\* C25: erase in display (J: 0 cursor to end of screen, 1 start of screen to
\* cursor, 2 / 3 whole screen) and erase in line (K: 0 cursor to end of line,
\* 1 start of line to cursor, 2 whole line) replace exactly the addressed
\* cells, the cursor cell included, with default cells; every other cell, the
\* cursor and the text attributes are unchanged, and any other parameter
\* value erases nothing.
EraseExactlyAddressed ==
    \A text \in EraseTexts, final \in {74, 75} :
        (/\ last.kind = "read" /\ last.data = CsiCommand(text, final)
         /\ prev.m_escapeState = "None"
         /\ prev.m_cursorY \in 0..(prev.m_rows - 1)
         /\ prev.m_cursorX \in 0..(prev.m_cols - 1)) =>
            /\ ~crashed
            /\ m_cursorX = prev.m_cursorX /\ m_cursorY = prev.m_cursorY
            /\ Attributes(Self) = Attributes(prev)
            /\ m_buffer =
                  [y \in DOMAIN prev.m_buffer |->
                      [x \in DOMAIN prev.m_buffer[y] |->
                          IF Addressed(final, IF text = <<>> THEN 0 ELSE Denoted(text),
                                       prev.m_cursorY, prev.m_cursorX, y, x)
                          THEN TermChar ELSE prev.m_buffer[y][x]]]

\* C26: save / restore cursor is one slot that starts at (0,0): ESC [ s
\* records the cursor in it, overwriting what it held; ESC [ u sets the cursor
\* to the recorded position (to (0,0) when nothing was saved) and leaves the
\* slot as it was, so that restoring twice gives the same position; no other
\* operation changes the slot.
SavedCursorSlot ==
    /\ last.kind = "init" => (m_savedCursorX = 0 /\ m_savedCursorY = 0)
    /\ (last.kind # "init" /\ ~crashed) =>
          IF last.kind = "read" /\ last.data = CsiCommand(<<>>, 115)
          THEN /\ m_savedCursorX = prev.m_cursorX /\ m_savedCursorY = prev.m_cursorY
               /\ m_cursorX = prev.m_cursorX /\ m_cursorY = prev.m_cursorY
          ELSE /\ m_savedCursorX = prev.m_savedCursorX
               /\ m_savedCursorY = prev.m_savedCursorY
               /\ (last.kind = "read" /\ last.data = CsiCommand(<<>>, 117)) =>
                      (m_cursorX = prev.m_savedCursorX /\ m_cursorY = prev.m_savedCursorY)

\* ESC [ u brought the cursor back to a saved (1,1) from elsewhere
SavedCursorWitness ==
    /\ last.kind = "read" /\ last.data = CsiCommand(<<>>, 117) /\ ~crashed
    /\ prev.m_savedCursorX = 1 /\ prev.m_savedCursorY = 1
    /\ prev.m_cursorX # 1 /\ prev.m_cursorY = 1
    /\ m_cursorX = 1 /\ m_cursorY = 1
    /\ m_savedCursorX = 1 /\ m_savedCursorY = 1

\* C27: an escape sequence changes the cursor-visibility flag only when its
\* final byte is h or l, its parameter text starts with the private marker and
\* 25 is among its parameters: then h sets the flag and l clears it; h / l
\* without the marker or without 25 leave it, and no h / l sequence changes
\* the grid, the cursor position or the attributes.
VisibilityOnlyByMode25 ==
    (last.kind = "read" /\ ~crashed) =>
        /\ \A text \in Texts25 \cup TextsOther, final \in {104, 108} :
                last.data = CsiCommand(text, final) =>
                    /\ m_cursorVisible =
                          IF text \in Texts25 THEN final = 104 ELSE prev.m_cursorVisible
                    /\ m_buffer = prev.m_buffer
                    /\ m_cursorX = prev.m_cursorX /\ m_cursorY = prev.m_cursorY
                    /\ Attributes(Self) = Attributes(prev)
        /\ last.data[Len(last.data)] \notin {104, 108} =>
                m_cursorVisible = prev.m_cursorVisible

\* ESC [ ? 1 ; 25 l hid a visible cursor on a grid holding bold red text
VisibilityWitness ==
    /\ last.kind = "read" /\ ~crashed
    /\ last.data = CsiCommand(<<QUESTION, 49, SEMI, 50, 53>>, 108)
    /\ prev.m_cursorVisible /\ ~m_cursorVisible
    /\ m_bold /\ m_buffer[0][0].character = 97 /\ m_buffer[0][0].bold

\* C28: each poll drains the PTY: when a poll tick finishes, every byte that
\* was waiting on the master descriptor when the tick started has been read
\* and driven through decoder, parser and buffer, however many were waiting.
PollDrains ==
    (last.kind = "poll" /\ last.result # "skipped" /\ ~crashed) =>
        /\ last.data = last.pending
        /\ Self = [processOutput(prev, last.pending) EXCEPT !.oob = FALSE]

\* C29: teardown never leaks the child or the descriptor: after the
\* destructor has run the child is not running and the master descriptor is
\* closed, also for a child that ignores the termination signal.
TeardownLeaksNothing ==
    pty.destroyed => (pty.child # "running" /\ ~pty.open)

\* C30: a read or write that fails with an error other than would-block
\* closes the session: the descriptor is released and no later poll tick or
\* key event attempts a read or a write on it; a would-block result changes
\* no state and leaves the session open.
IoErrorClosesSession ==
    /\ (pty.errored /\ ~pty.destroyed) => (m_masterFd < 0 /\ ~pty.open)
    /\ ~pty.ioAfterError
    /\ (last.kind = "poll" /\ last.result = "wouldblock") =>
            (Self = prev /\ m_masterFd >= 0 /\ pty.open)
    /\ (last.kind = "key" /\ last.result = "wouldblock") =>
            (m_buffer = prev.m_buffer /\ m_masterFd >= 0 /\ pty.open)

\* C31: when forkpty fails the session never opens: the descriptor stays
\* invalid, no poll tick and no key event calls read() or write(), the
\* destructor sends no signal, and the grid stays all default cells (only
\* resize events reshape it).
ForkFailureInert ==
    m_childPid = -1 =>
        /\ m_masterFd = -1 /\ ~pty.open /\ pty.child = "none"
        /\ ~pty.io /\ pty.written = <<>> /\ ~pty.signalled
        /\ \A y \in DOMAIN m_buffer : \A x \in DOMAIN m_buffer[y] : m_buffer[y][x] = TermChar
        /\ DOMAIN m_buffer = 0..(m_rows - 1)
        /\ (nResize = 0 => (m_rows = InitRows /\ m_cols = InitCols))

\* without a shell, keys were pressed, the window was resized, and the widget
\* was destroyed
ForkFailureWitness ==
    /\ m_childPid = -1 /\ last.kind = "destroy"
    /\ pty.keys = MaxKeys /\ nResize > 0 /\ m_cols # InitCols

\* C32: while the session is open the window size the PTY holds equals the
\* grid's (rows, cols) whenever no handler is running: from the spawn on (the
\* child starts with the grid's initial size) and after every resize event.
PtyGeometryMatchesGrid ==
    (m_masterFd >= 0 /\ pty.open /\ ~pty.destroyed /\ ~crashed) =>
        (pty.rows = m_rows /\ pty.cols = m_cols)

\* C33: the byte stream delivered to the PTY master is exactly the
\* concatenation, in key-event order, of the byte strings the key events
\* received while the session is open were mapped to: no byte is reordered,
\* duplicated or held back.
KeyStreamExact ==
    (pty.child = "running" /\ ~crashed) => pty.written = pty.typed

\* the attributes a cell carries
CellAttributes(cell) ==
    <<cell.foreground, cell.background, cell.bold, cell.italic, cell.underline>>

\* C34: the text attribute state changes only while an SGR (m) command is
\* dispatched: character writes, control characters, cursor moves, erases,
\* scrolls, resizes, OSC sequences, blink ticks and key events leave it
\* unchanged; and every glyph cell written carries the attribute state in
\* force at the time of the write.
AttributesOnlyBySgr ==
    ~crashed =>
        /\ (last.kind \in {"resize", "blink", "key"}) => Attributes(Self) = Attributes(prev)
        /\ (last.kind = "read" /\ last.data \notin SgrChunks) =>
                Attributes(Self) = Attributes(prev)
        /\ (/\ last.kind = "read"
            /\ prev.m_cursorY \in 0..(prev.m_rows - 1)
            /\ prev.m_cursorX >= 0) =>
                /\ (last.data = <<97>> /\ prev.m_cursorX + 1 < prev.m_cols) =>
                        CellAttributes(m_buffer[prev.m_cursorY][prev.m_cursorX]) = Attributes(prev)
                /\ (last.data = WideChar /\ prev.m_cursorX + 2 < prev.m_cols) =>
                        /\ CellAttributes(m_buffer[prev.m_cursorY][prev.m_cursorX])
                                = Attributes(prev)
                        /\ CellAttributes(m_buffer[prev.m_cursorY][prev.m_cursorX + 1])
                                = Attributes(prev)

\* the latest event was the control character c, read in Ground with the
\* cursor in the grid
LastControl(c) ==
    /\ last.kind = "read" /\ last.data = <<c>> /\ ~crashed
    /\ prev.m_escapeState = "None"
    /\ prev.m_cursorY \in 0..(prev.m_rows - 1)
    /\ prev.m_cursorX \in 0..(prev.m_cols - 1)

\* the next multiple of 8 strictly greater than column x
NextTabStop(x) == CHOOSE s \in (x + 1)..(x + 8) : s % 8 = 0

\* C35: backspace moves the cursor one column left and does nothing at
\* column 0; horizontal tab moves the cursor to the next multiple of 8
\* strictly greater than the current column, and when that column is >= cols
\* it wraps to column 0 of the next row, scrolling once if the cursor was on
\* the last row; neither changes a cell except through that scroll.
BackspaceAndTab ==
    /\ LastControl(BS) =>
            /\ m_cursorX = (IF prev.m_cursorX = 0 THEN 0 ELSE prev.m_cursorX - 1)
            /\ m_cursorY = prev.m_cursorY
            /\ m_buffer = prev.m_buffer
    /\ LastControl(TAB) =>
            IF NextTabStop(prev.m_cursorX) < prev.m_cols
            THEN /\ m_cursorX = NextTabStop(prev.m_cursorX)
                 /\ m_cursorY = prev.m_cursorY
                 /\ m_buffer = prev.m_buffer
            ELSE IF prev.m_cursorY < prev.m_rows - 1
            THEN /\ m_cursorX = 0
                 /\ m_cursorY = prev.m_cursorY + 1
                 /\ m_buffer = prev.m_buffer
            ELSE /\ m_cursorX = 0
                 /\ m_cursorY = prev.m_cursorY
                 /\ m_buffer = [y \in DOMAIN prev.m_buffer |->
                                  IF y < prev.m_rows - 1 THEN prev.m_buffer[y + 1]
                                  ELSE BlankRow(prev.m_cols)]

\* a tab from column 8 of the last row wrapped and scrolled the text up
BackspaceAndTabWitness ==
    /\ LastControl(TAB)
    /\ prev.m_cursorX = 8 /\ prev.m_cursorY = prev.m_rows - 1
    /\ prev.m_buffer[prev.m_cursorY][0].character = 97
    /\ m_buffer[prev.m_cursorY - 1][0].character = 97
    /\ m_cursorX = 0 /\ m_cursorY = prev.m_cursorY

\* C36: a CSI sequence with final byte r, n or a byte without a case changes
\* nothing but the parser state, which is back in Ground: grid, cursor, saved
\* cursor, visibility, attributes, line-feed and decoder state are as before;
\* and no processing of PTY output writes a byte to the PTY.
CsiNoOpsChangeNothing ==
    /\ [](\A text \in NoOpTexts, final \in NoOpFinals :
            LastCsi(text, final) =>
                Self = [prev EXCEPT !.m_escapeState = "None",
                                    !.m_escapeSequence = text])
    /\ [][last'.kind = "read" => pty'.written = pty.written]_vars

\* ESC [ 1 ; 2 r arrived with the cursor at (1,1), after a key had been
\* written to the PTY: the cursor stayed and nothing more was written
CsiNoOpsWitness ==
    /\ LastCsi(<<49, SEMI, 50>>, 114)
    /\ prev.m_cursorX = 1 /\ prev.m_cursorY = 1
    /\ m_cursorX = 1 /\ m_cursorY = 1
    /\ m_escapeState = "None"
    /\ pty.written # <<>>

\* C37: once ESC [ ? 25 l has hidden the cursor, the visibility flag stays
\* false under blink ticks, poll ticks, key events and resize events until an
\* ESC [ ? 25 h is processed: no event other than that one, coming after the
\* hide, leaves the flag true.
HiddenCursorStaysHidden ==
    [][(/\ last.kind = "read" /\ last.data = HideCursor
        /\ ~crashed /\ ~m_cursorVisible
        /\ ~crashed'
        /\ ~(last'.kind = "read" /\ last'.data = ShowCursor))
       => ~m_cursorVisible']_vars

\* C38: user input only flows outward: a key event, with or without
\* Control, changes none of the grid, the cursor, the attributes, the parser
\* state, the decoder state and the line-feed handling state, so that output
\* is processed the same whether or not key events come between the polls.
KeysLeaveStateAlone ==
    (last.kind = "key" /\ ~crashed) => Self = prev

\* C39: while the session stays open and the poll timer keeps firing, every
\* byte the child writes is eventually read and processed, exactly once and
\* in the order written: what has been processed, followed by what still
\* waits on the descriptor, is what the child wrote, and the n-th byte
\* written gets processed.
EveryByteProcessedOnce ==
    /\ [](fed \o pty.waiting = pty.produced)
    /\ \A n \in 1..MaxOutput : (Len(pty.produced) >= n) ~> (Len(fed) >= n)

\* the last of several bounded reads has emptied the descriptor: all the
\* child wrote, more than one read holds, has been processed in order
EveryByteWitness ==
    /\ last.kind = "poll" /\ last.result = "data" /\ ~crashed
    /\ Len(pty.produced) > ReadCapacity
    /\ Len(last.data) < Len(fed)
    /\ pty.waiting = <<>>
    /\ fed = pty.produced

====
